---- MODULE Spec2Model ----
(***************************************************************************)
(* squeal-mate: the selection queue (AppState), the two list components   *)
(* (List on the file-chooser screen, ScrollList on the script-runner      *)
(* screen), the event loop of App::run with its unbounded action channel, *)
(* the run tasks spawned by ScrollList, the status tasks spawned by List  *)
(* and the run-history store.                                              *)
(*                                                                         *)
(* Paths are numbered 1..NumPaths in the order of their relative_path     *)
(* strings.  The repository root holds one directory (entry 0), and that  *)
(* directory holds the script files 1..NumPaths.                           *)
(* Option<T> is a sequence of length at most one: <<>> is None.           *)
(* The status an entry of List shows is display only and is not kept.     *)
(***************************************************************************)
EXTENDS Integers, Sequences, FiniteSets, TLC

NumPaths == 2
MaxKeys == 4

Paths == 1..NumPaths
DirEntry == 0
DirFiles == Paths

ReadErrorMsg == 1
BatchErrorMsg == 2

VARIABLES
    selected,       \* AppState.selected: Vec<Script>
    current_screen, \* App.current_screen: Mode
    chan,           \* the unbounded channel action_tx / action_rx
    keyAt,          \* App::run: how far the drain is from the last key's action
    alive,          \* FALSE once the process has ended (a panic, an Err out of run)
    pos,            \* ScrollList.state.selected(): Option<usize>
    listPos,        \* List.state.selected(): Option<usize>
    path,           \* Repository.path: the stack of opened directory names
    tasks,          \* the spawned run tasks that have not returned yet
    scans,          \* the spawned status tasks of List that have not returned yet
    memory,         \* ScriptDatabase, table scripts: path -> Option<(crc, result)>
    keys,           \* number of key events read so far
    runs,           \* per path: the tasks spawned since its entry was added
    cycle,          \* bookkeeping of the run-cycle opened by the first Run key
    last,           \* the call applied (SpecQueue, SpecStore, SpecParse), with the state before it
    sql,            \* BatchParser::parse: the script text it is given
    batches,        \* BatchParser.batches: Vec<String>
    exec,           \* Database::execute_script: where it stands, the batches sent, its result
    dir_order,      \* the file system: per directory, the order read_dir hands out its children
    file_list       \* FileList: entries, cursor, page_index, height

vars == <<selected, current_screen, chan, keyAt, alive, pos, listPos, path,
          tasks, scans, memory, keys, runs, cycle, last, sql, batches, exec,
          dir_order, file_list>>

-----------------------------------------------------------------------------
(* ScriptState and Script with their derived orderings *)

StateOrd(s) ==
    CASE s = "Finished" -> 0
      [] s = "Running" -> 1
      [] s = "Error" -> 2
      [] s = "None" -> 3

OptLess(a, b) ==
    IF a = <<>> THEN b # <<>>
    ELSE b # <<>> /\ a[1] < b[1]

\* mutant: the run state before relative_path
ScriptLess_StateFirst(a, b) ==
    \/ StateOrd(a.state) < StateOrd(b.state)
    \/ a.state = b.state /\ a.relative_path < b.relative_path

\* #[derive(Ord)] on Script: the fields in declaration order
ScriptLess(a, b) ==
    \/ a.relative_path < b.relative_path
    \/ /\ a.relative_path = b.relative_path
       /\ \/ StateOrd(a.state) < StateOrd(b.state)
          \/ /\ a.state = b.state
             /\ \/ OptLess(a.error, b.error)
                \/ a.error = b.error /\ OptLess(a.elapsed, b.elapsed)

ScriptNone(p) ==
    [relative_path |-> p, state |-> "None", error |-> <<>>, elapsed |-> <<>>]

RECURSIVE InsertSorted(_, _)
InsertSorted(s, e) ==
    IF s = <<>> THEN <<e>>
    ELSE IF ScriptLess(e, Head(s)) THEN <<e>> \o s
    ELSE <<Head(s)>> \o InsertSorted(Tail(s), e)

RECURSIVE SortScripts(_)
\* Vec::sort: stable, by ScriptLess
SortScripts(s) ==
    IF s = <<>> THEN <<>>
    ELSE InsertSorted(SortScripts(SubSeq(s, 1, Len(s) - 1)), s[Len(s)])

RECURSIVE Retain(_, _)
\* Vec::retain, keeping the entries whose relative_path is in keep
Retain(s, keep) ==
    IF s = <<>> THEN <<>>
    ELSE IF Head(s).relative_path \in keep
         THEN <<Head(s)>> \o Retain(Tail(s), keep)
    ELSE Retain(Tail(s), keep)

PathsOf(s) == {s[i].relative_path : i \in 1..Len(s)}

RECURSIVE SeqOfSet(_)
\* a set of paths as a sequence, in ascending order
SeqOfSet(S) ==
    IF S = {} THEN <<>>
    ELSE LET x == CHOOSE y \in S : \A z \in S : y <= z
         IN <<x>> \o SeqOfSet(S \ {x})

-----------------------------------------------------------------------------
(* AppState *)

\* mutant: no filter on the paths already selected
NewItems_All(scripts, sel) ==
    [i \in 1..Len(scripts) |-> ScriptNone(scripts[i])]

RECURSIVE NewItems(_, _)
NewItems(scripts, sel) ==
    IF scripts = <<>> THEN <<>>
    ELSE IF Head(scripts) \in PathsOf(sel) THEN NewItems(Tail(scripts), sel)
    ELSE <<ScriptNone(Head(scripts))>> \o NewItems(Tail(scripts), sel)

\* mutant: add puts a fresh entry in the place of the one it finds
add_Fresh(sel, script) ==
    SortScripts(Append(Retain(sel, PathsOf(sel) \ {script}), ScriptNone(script)))

add(sel, script) ==
    IF script \notin PathsOf(sel)
    THEN SortScripts(Append(sel, ScriptNone(script)))
    ELSE sel

remove(sel, script) ==
    SortScripts(Retain(sel, PathsOf(sel) \ {script}))

Range(s) == {s[i] : i \in 1..Len(s)}

remove_many(sel, scripts) ==
    SortScripts(Retain(sel, PathsOf(sel) \ Range(scripts)))

add_many(sel, scripts) ==
    SortScripts(sel \o NewItems(scripts, sel))

toggle(sel, script) ==
    IF script \in PathsOf(sel)
    THEN SortScripts(Retain(sel, PathsOf(sel) \ {script}))
    ELSE SortScripts(add(sel, script))

\* mutant: every path toggled on its own
toggle_many_Each(sel, scripts) ==
    SortScripts(Retain(sel, PathsOf(sel) \ Range(scripts)) \o NewItems(scripts, sel))

toggle_many(sel, scripts) ==
    IF PathsOf(sel) \cap Range(scripts) # {}
    THEN SortScripts(Retain(sel, PathsOf(sel) \ Range(scripts)))
    ELSE SortScripts(add_many(sel, scripts))

-----------------------------------------------------------------------------
(* Repository and the entries the List component shows *)

\* read_entries_in_current_directory: the children of the current directory
Entries(stack) ==
    IF stack = <<>> THEN <<DirEntry>>
    ELSE SeqOfSet(DirFiles)

\* get_children: the .sql files below a directory entry, none for a file
get_children(e) ==
    IF e = DirEntry THEN SeqOfSet(DirFiles) ELSE <<>>

\* read_files_in_directory: the .sql files of the current directory
read_files_in_directory(stack) ==
    IF stack = <<>> THEN <<>> ELSE SeqOfSet(DirFiles)

\* Vec::get with a 0-based index, as an Option
Get(s, i) == IF i >= 0 /\ i < Len(s) THEN <<s[i + 1]>> ELSE <<>>

\* Iterator::position, as an Option of a 0-based index
Position(s, p) ==
    IF \E i \in 1..Len(s) : s[i] = p
    THEN <<(CHOOSE i \in 1..Len(s) :
               s[i] = p /\ \A j \in 1..(i - 1) : s[j] # p) - 1>>
    ELSE <<>>

PositionOfPath(sel, p) ==
    Position([i \in 1..Len(sel) |-> sel[i].relative_path], p)

-----------------------------------------------------------------------------
(* Actions (action.rs) as records *)

Msg(t) == [type |-> t]
ScriptRunMsg(skip) == [type |-> "ScriptRun", skip |-> skip]
ScriptRunningMsg(p) == [type |-> "ScriptRunning", path |-> p]
ScriptFinishedMsg(p, e, c) ==
    [type |-> "ScriptFinished", path |-> p, elapsed |-> e, crc |-> c]
ScriptErrorMsg(p, m, c) ==
    [type |-> "ScriptError", path |-> p, message |-> m, crc |-> c]
EntryStatusChangedMsg(p, status) ==
    [type |-> "EntryStatusChanged", path |-> p, status |-> status]

\* EntryStatus (entries.rs)
Directory == <<"Directory">>
NeverStarted == <<"NeverStarted">>
Finished(result) == <<"Finished", result>>
SwitchModeMsg(m) == [type |-> "SwitchMode", mode |-> m]

\* crc.checksum(content.as_bytes()): one checksum per file content
Checksum(p) == 100 + p

\* now.elapsed().as_millis(): the time the script takes
Elapsed(p) == 10 + p

KeyCodes ==
    {"r", "R", "Space", "d", "x", "X", "Tab", "Up", "Down", "Home", "End",
     "Enter", "Backspace"}

\* the key bindings of App::run
KeyAction(k, mode) ==
    CASE k = "r" -> ScriptRunMsg(FALSE)
      [] k = "R" -> ScriptRunMsg(TRUE)
      [] k = "Space" -> Msg("SelectCurrent")
      [] k = "d" -> Msg("SelectAllInDirectory")
      [] k = "x" -> Msg("UnselectCurrent")
      [] k = "X" -> Msg("UnselectAll")
      [] k = "Up" -> Msg("CursorUp")
      [] k = "Down" -> Msg("CursorDown")
      [] k = "Home" -> Msg("CursorToTop")
      [] k = "End" -> Msg("CursorToBottom")
      [] k = "Enter" -> Msg("DirectoryOpenSelected")
      [] k = "Backspace" -> Msg("DirectoryLeave")
      [] k = "Tab" -> IF mode = "FileChooser" THEN SwitchModeMsg("ScriptRunner")
                      ELSE SwitchModeMsg("FileChooser")

-----------------------------------------------------------------------------
(* ScrollList: the pure parts of its handlers *)

\* mutant: the last entry that did not run
first_not_run_entry_Last(sel) ==
    IF \E i \in 1..Len(sel) : sel[i].state = "None"
    THEN <<sel[CHOOSE i \in 1..Len(sel) :
                 /\ sel[i].state = "None"
                 /\ \A j \in (i + 1)..Len(sel) : sel[j].state # "None"]>>
    ELSE <<>>

\* state.selected.iter().find(|f| f.state == ScriptState::None).cloned()
\* mutant: with no entry in state None left, the first entry is taken again
first_not_run_entry_Any(sel) ==
    IF \E i \in 1..Len(sel) : sel[i].state = "None"
    THEN <<sel[CHOOSE i \in 1..Len(sel) :
                 /\ sel[i].state = "None"
                 /\ \A j \in 1..(i - 1) : sel[j].state # "None"]>>
    ELSE IF sel # <<>> THEN <<sel[1]>>
    ELSE <<>>

first_not_run_entry(sel) ==
    IF \E i \in 1..Len(sel) : sel[i].state = "None"
    THEN <<sel[CHOOSE i \in 1..Len(sel) :
                 /\ sel[i].state = "None"
                 /\ \A j \in 1..(i - 1) : sel[j].state # "None"]>>
    ELSE <<>>

SetRunning(sel, entry) ==
    [i \in 1..Len(sel) |->
        IF sel[i].relative_path = entry THEN [sel[i] EXCEPT !.state = "Running"]
        ELSE sel[i]]

\* mutant: a result for a path that is not selected brings its entry back
SetFinished_Create(sel, entry, elapsed) ==
    IF entry \in PathsOf(sel)
    THEN [i \in 1..Len(sel) |->
            IF sel[i].relative_path = entry
            THEN [sel[i] EXCEPT !.state = "Finished", !.elapsed = <<elapsed>>]
            ELSE sel[i]]
    ELSE Append(sel, [ScriptNone(entry) EXCEPT !.state = "Finished",
                                               !.elapsed = <<elapsed>>])

SetFinished(sel, entry, elapsed) ==
    [i \in 1..Len(sel) |->
        IF sel[i].relative_path = entry
        THEN [sel[i] EXCEPT !.state = "Finished", !.elapsed = <<elapsed>>]
        ELSE sel[i]]

SetError(sel, entry, message) ==
    [i \in 1..Len(sel) |->
        IF sel[i].relative_path = entry
        THEN [sel[i] EXCEPT !.state = "Error", !.error = <<message>>]
        ELSE sel[i]]

\* go_to_entry on the position of the entry, when it is still selected
GoToEntry(sel, entry, old) ==
    IF PositionOfPath(sel, entry) # <<>> THEN PositionOfPath(sel, entry)[1]
    ELSE old

\* mutant: INSERT OR IGNORE, the record of an earlier run stays
insert_Ignore(mem, file, crc, result) ==
    IF mem[file] = <<>>
    THEN [mem EXCEPT ![file] = <<[crc |-> crc, result |-> result]>>]
    ELSE mem

\* ScriptDatabase::insert: INSERT ... ON CONFLICT(name) DO UPDATE
\* mutant: the record is written only while the path has an entry in the queue
insert_IfSelected(mem, file, crc, result) ==
    IF file \in {selected[i].relative_path : i \in 1..Len(selected)}
    THEN [mem EXCEPT ![file] = <<[crc |-> crc, result |-> result]>>]
    ELSE mem

insert(mem, file, crc, result) ==
    [mem EXCEPT ![file] = <<[crc |-> crc, result |-> result]>>]

Changed == <<"Changed">>

\* mutant: the stored checksum is not compared
get_file_status_NoCrc(mem, file, crc) ==
    IF mem[file] = <<>> THEN NeverStarted ELSE Finished(mem[file][1].result)

\* ScriptDatabase::get_file_status: the first row of name = file_path, if any
get_file_status(mem, file, crc) ==
    IF mem[file] = <<>> THEN NeverStarted
    ELSE IF mem[file][1].crc = crc THEN Finished(mem[file][1].result)
    ELSE Changed

\* mutant: the status task hashes the text without its first character
StatusChecksum_Stripped(p) == Checksum(p) + NumPaths

\* the checksum the status task computes of a file: CRC_32_ISO_HDLC of
\* content.as_bytes(), content read from base.join(relative_path), which is
\* what the run task computes
StatusChecksum(p) == Checksum(p)

\* mutant: the ScriptError handler never writes
ErrorInsert_Never(mem, file, crc) == mem

\* the history write of the ScriptError handler: only if let Some(crc) = crc
ErrorInsert(mem, file, crc) ==
    IF crc # <<>> THEN insert(mem, file, crc[1], FALSE) ELSE mem

\* mutant: the Ok branch does not send ScriptRun
OkSends_NoRun(p, skip) ==
    <<ScriptFinishedMsg(p, Elapsed(p), Checksum(p)),
      EntryStatusChangedMsg(p, Finished(TRUE))>>

\* mutant: the Ok branch sends ScriptRun twice
OkSends_TwoRuns(p, skip) ==
    <<ScriptFinishedMsg(p, Elapsed(p), Checksum(p)),
      EntryStatusChangedMsg(p, Finished(TRUE)),
      ScriptRunMsg(skip),
      ScriptRunMsg(skip)>>

(* The run task spawned by Action::ScriptRun: what it sends after the      *)
(* ScriptRunning message, by the outcome of reading and executing the file *)
OkSends(p, skip) ==
    <<ScriptFinishedMsg(p, Elapsed(p), Checksum(p)),
      EntryStatusChangedMsg(p, Finished(TRUE)),
      ScriptRunMsg(skip)>>

\* mutant: the Err branch sends ScriptRun whatever skip_errors is
BatchErrSends_Always(p, skip) ==
    <<ScriptErrorMsg(p, BatchErrorMsg, <<Checksum(p)>>),
      EntryStatusChangedMsg(p, Finished(FALSE)),
      ScriptRunMsg(skip)>>

BatchErrSends(p, skip) ==
    <<ScriptErrorMsg(p, BatchErrorMsg, <<Checksum(p)>>),
      EntryStatusChangedMsg(p, Finished(FALSE))>>
    \o (IF skip THEN <<ScriptRunMsg(skip)>> ELSE <<>>)

ReadErrSends(p, skip) ==
    <<ScriptErrorMsg(p, ReadErrorMsg, <<>>)>>

Outcomes == {"ok", "batch_error", "read_error"}

TaskSends(outcome, p, skip) ==
    CASE outcome = "ok" -> OkSends(p, skip)
      [] outcome = "batch_error" -> BatchErrSends(p, skip)
      [] outcome = "read_error" -> ReadErrSends(p, skip)

\* usize::MAX, what 0 - 1 wraps to in a build without overflow checks; usize
\* is scaled down to UsizeBits bits, far more than any list length here
UsizeBits == 16
UsizeMax == 2 ^ UsizeBits - 1

-----------------------------------------------------------------------------
(* Init: the state App::new, List::new and ScrollList::new construct *)

\* execute_script has not been called
ExecIdle == [pc |-> "idle", sent |-> <<>>, result |-> <<>>]

CycleIdle ==
    [open |-> FALSE, skip |-> FALSE, quiet |-> TRUE, failed |-> {}]

Init ==
    /\ selected = <<>>
    /\ current_screen = "FileChooser"
    /\ chan = <<Msg("CalculateEntryStatus")>>
    /\ keyAt = 0
    /\ alive = TRUE
    /\ pos = 0
    /\ listPos = 0
    /\ path = <<>>
    /\ tasks = {}
    /\ scans = {}
    /\ memory = [p \in Paths |-> <<>>]
    /\ keys = 0
    /\ runs = [p \in Paths |-> 0]
    /\ cycle = CycleIdle
    /\ sql = <<>>
    /\ batches = <<>>
    /\ exec = ExecIdle
    /\ dir_order = <<>>
    /\ file_list = <<>>
    /\ last = <<>>

\* The process ends (a panic, or an Err that leaves App::run): the tasks and
\* everything in memory go with it, the history store stays as it is on disk
Abort ==
    /\ alive' = FALSE
    /\ selected' = <<>>
    /\ current_screen' = "FileChooser"
    /\ chan' = <<>>
    /\ keyAt' = 0
    /\ pos' = 0
    /\ listPos' = 0
    /\ path' = <<>>
    /\ tasks' = {}
    /\ scans' = {}
    /\ keys' = 0
    /\ runs' = [p \in Paths |-> 0]
    /\ cycle' = CycleIdle
    /\ UNCHANGED <<memory, last, sql, batches, exec, dir_order, file_list>>

\* the bookkeeping of runs: a path that leaves the queue starts afresh
RunsAfter(sel) == [p \in Paths |-> IF p \in PathsOf(sel) THEN runs[p] ELSE 0]

-----------------------------------------------------------------------------
(* App::run: the event loop *)

RunKey(k) == k \in {"r", "R"}

\* the components of the current screen get every action but EntryStatusChanged
OnList == current_screen = "FileChooser"
OnScrollList == current_screen = "ScriptRunner"

(* App::run reads an event with tui.next(), sends the action of a key and   *)
(* then drains the channel with try_recv until it is empty; Tick and Render *)
(* events make it drain again.  So the action of a key is sent behind the   *)
(* actions the tasks sent before it, and the next key is read only after    *)
(* that action was received: keyAt is the number of actions the drain has   *)
(* still to receive up to and including it, 0 when it was received.  The    *)
(* tasks send at any time, whether the loop waits or drains.                *)
KeyEvent ==
    /\ alive /\ keyAt = 0 /\ keys < MaxKeys
    /\ \E k \in KeyCodes :
        /\ chan' = Append(chan, KeyAction(k, current_screen))
        /\ cycle' = IF ~cycle.open /\ RunKey(k) /\ OnScrollList
                    THEN [open |-> TRUE, skip |-> (k = "R"), quiet |-> TRUE,
                          failed |-> {}]
                    ELSE IF cycle.open THEN [cycle EXCEPT !.quiet = FALSE]
                    ELSE cycle
    /\ keyAt' = Len(chan) + 1
    /\ keys' = keys + 1
    /\ UNCHANGED <<exec, dir_order, file_list, sql, batches, last, scans, selected, current_screen, alive, pos, listPos, path, tasks,
                   memory, runs>>

\* try_recv yields an action of type t, the head of the channel
Recv(t) ==
    /\ alive /\ chan # <<>>
    /\ Head(chan).type = t

\* the action leaves the channel (the ScriptHighlighted action that
\* ScrollList::update returns and App::run sends only feeds the status pane,
\* which shows it, and is left out)
Pop ==
    /\ chan' = Tail(chan)
    /\ keyAt' = IF keyAt > 0 THEN keyAt - 1 ELSE 0

AppSwitchMode ==
    /\ Recv("SwitchMode")
    /\ Pop
    /\ current_screen' = Head(chan).mode
    /\ UNCHANGED <<exec, dir_order, file_list, sql, batches, last, scans, selected, alive, pos, listPos, path, tasks, memory,
                   keys, runs, cycle>>

ListTypes ==
    {"SelectCurrent", "SelectAllInDirectory", "DirectoryOpenSelected",
     "DirectoryLeave", "CalculateEntryStatus"}
ScrollTypes ==
    {"ScriptRun", "ScriptRunning", "ScriptFinished", "ScriptError"}

\* an action no component of the current screen handles
Ignored ==
    /\ \E t \in ListTypes \cup ScrollTypes :
        /\ Recv(t)
        /\ \/ t \in ListTypes /\ OnScrollList
           \/ t \in ScrollTypes /\ OnList
    /\ Pop
    /\ UNCHANGED <<exec, dir_order, file_list, sql, batches, last, scans, selected, current_screen, alive, pos, listPos, path,
                   tasks, memory, keys, runs, cycle>>

-----------------------------------------------------------------------------
(* List::update (file-chooser screen) *)

CursorTypes == {"CursorUp", "CursorDown", "CursorToTop", "CursorToBottom"}

cursor_up(position) == IF position > 0 THEN position - 1 ELSE position

\* List::cursor_down: no guard for an empty list
list_cursor_down(position, entries_len) ==
    IF position < entries_len - 1 THEN position + 1 ELSE position

ListCursor ==
    /\ OnList
    /\ \E t \in CursorTypes :
        /\ Recv(t)
        /\ listPos' = CASE t = "CursorUp" -> cursor_up(listPos)
                        [] t = "CursorDown" ->
                            list_cursor_down(listPos, Len(Entries(path)))
                        [] t = "CursorToTop" -> 0
                        [] t = "CursorToBottom" -> Len(Entries(path)) - 1
    /\ Pop
    /\ UNCHANGED <<exec, dir_order, file_list, sql, batches, last, scans, selected, current_screen, alive, pos, path, tasks,
                   memory, keys, runs, cycle>>

\* List::get_selection
get_selection == Get(Entries(path), listPos)

\* List::open_selected_directory: the handler sends CalculateEntryStatus
ListOpen ==
    /\ OnList /\ Recv("DirectoryOpenSelected")
    /\ keyAt' = IF keyAt > 0 THEN keyAt - 1 ELSE 0
    /\ IF get_selection = <<DirEntry>>
       THEN /\ path' = Append(path, DirEntry)
            /\ chan' = Append(Tail(chan), Msg("CalculateEntryStatus"))
            /\ listPos' = 0
       ELSE /\ chan' = Tail(chan)
            /\ UNCHANGED <<path, listPos>>
    /\ UNCHANGED <<exec, dir_order, file_list, sql, batches, last, scans, selected, current_screen, alive, pos, tasks,
                   memory, keys, runs, cycle>>

\* List::leave_current_directory: the handler sends CalculateEntryStatus
ListLeave ==
    /\ OnList /\ Recv("DirectoryLeave")
    /\ keyAt' = IF keyAt > 0 THEN keyAt - 1 ELSE 0
    /\ IF path # <<>>
       THEN /\ path' = SubSeq(path, 1, Len(path) - 1)
            /\ chan' = Append(Tail(chan), Msg("CalculateEntryStatus"))
            /\ listPos' = LET old_index == Position(Entries(path'), path[Len(path)])
                          IN IF old_index # <<>> THEN old_index[1] ELSE 0
       ELSE /\ chan' = Tail(chan)
            /\ UNCHANGED <<path, listPos>>
    /\ UNCHANGED <<exec, dir_order, file_list, sql, batches, last, scans, selected, current_screen, alive, pos, tasks,
                   memory, keys, runs, cycle>>

\* List::select_current
select_current(sel, entry) ==
    IF entry = <<>> THEN sel
    ELSE IF entry[1] = DirEntry THEN toggle_many(sel, get_children(entry[1]))
    ELSE toggle(sel, entry[1])

\* List::unselect_current
list_unselect_current(sel, entry) ==
    IF entry = <<>> THEN sel
    ELSE IF entry[1] = DirEntry THEN remove_many(sel, get_children(entry[1]))
    ELSE remove(sel, entry[1])

ListSelectCurrent ==
    /\ OnList /\ Recv("SelectCurrent")
    /\ Pop
    /\ selected' = select_current(selected, get_selection)
    /\ runs' = RunsAfter(selected')
    /\ UNCHANGED <<exec, dir_order, file_list, sql, batches, last, scans, current_screen, alive, pos, listPos, path, tasks,
                   memory, keys, cycle>>

ListUnselectCurrent ==
    /\ OnList /\ Recv("UnselectCurrent")
    /\ Pop
    /\ selected' = list_unselect_current(selected, get_selection)
    /\ runs' = RunsAfter(selected')
    /\ UNCHANGED <<exec, dir_order, file_list, sql, batches, last, scans, current_screen, alive, pos, listPos, path, tasks,
                   memory, keys, cycle>>

\* List::unselect_all and ScrollList::unselect_all: state.selected.clear()
UnselectAll ==
    /\ Recv("UnselectAll")
    /\ Pop
    /\ selected' = <<>>
    /\ runs' = RunsAfter(selected')
    /\ UNCHANGED <<exec, dir_order, file_list, sql, batches, last, scans, current_screen, alive, pos, listPos, path, tasks,
                   memory, keys, cycle>>

\* List::select_all_in_directory
ListSelectAllInDirectory ==
    /\ OnList /\ Recv("SelectAllInDirectory")
    /\ Pop
    /\ selected' = add_many(selected, read_files_in_directory(path))
    /\ UNCHANGED <<exec, dir_order, file_list, sql, batches, last, scans, current_screen, alive, pos, listPos, path, tasks,
                   memory, keys, runs, cycle>>

\* self.entries.iter().position(|e| e.relative_path == path)
EntryIndex(stack, p) == Position(Entries(stack), p)

\* EntryStatusChanged goes to the components of every screen; List unwraps the
\* position of the path among the entries of the directory it shows
ListEntryStatusChanged ==
    /\ Recv("EntryStatusChanged")
    /\ IF EntryIndex(path, Head(chan).path) # <<>>
       THEN /\ Pop
            /\ UNCHANGED <<exec, dir_order, file_list, sql, batches, last, scans, selected, current_screen, alive, pos, listPos,
                           path, tasks, memory, keys, runs, cycle>>
       ELSE Abort

\* a name for a new status task
NewScanId == CHOOSE i \in 1..(Cardinality(scans) + 1) : \A t \in scans : t.id # i

\* Action::CalculateEntryStatus: spawn a task that goes through the entries
\* the list shows now
ListCalculateEntryStatus ==
    /\ OnList /\ Recv("CalculateEntryStatus")
    /\ Pop
    /\ scans' = scans \cup {[id |-> NewScanId, left |-> Entries(path)]}
    /\ UNCHANGED <<exec, dir_order, file_list, sql, batches, last, selected, current_screen, alive, pos, listPos, path,
                   tasks, memory, keys, runs, cycle>>

\* the status task at its next entry: a directory is reported as such, a file
\* with the status the store has for it, or not at all when reading the file
\* or the store fails
ScanStep ==
    /\ alive
    /\ \E t \in scans :
        LET entry == Head(t.left) IN
        /\ \/ /\ entry = DirEntry
              /\ chan' = Append(chan, EntryStatusChangedMsg(entry, Directory))
           \/ /\ entry # DirEntry
              /\ chan' = Append(chan, EntryStatusChangedMsg(entry,
                                         get_file_status(memory, entry,
                                                         StatusChecksum(entry))))
           \/ /\ entry # DirEntry
              /\ UNCHANGED chan
        /\ scans' = IF Tail(t.left) = <<>> THEN scans \ {t}
                    ELSE (scans \ {t}) \cup {[t EXCEPT !.left = Tail(t.left)]}
    /\ UNCHANGED <<exec, dir_order, file_list, sql, batches, last, selected, current_screen, keyAt, alive, pos, listPos,
                   path, tasks, memory, keys, runs, cycle>>

-----------------------------------------------------------------------------
(* ScrollList::update (script-runner screen) *)

\* ScrollList::cursor_down
cursor_down(position, entries_len) ==
    IF entries_len = 0 THEN position
    ELSE IF position < entries_len - 1 THEN position + 1 ELSE position

\* ScrollList::go_to_bottom computes entries_len - 1 on usize: with no entry
\* the subtraction panics in a build with overflow checks and wraps otherwise
ScrollCursor ==
    /\ OnScrollList
    /\ \E t \in CursorTypes :
        /\ Recv(t)
        /\ \/ /\ Pop
              /\ pos' = CASE t = "CursorUp" -> cursor_up(pos)
                          [] t = "CursorDown" -> cursor_down(pos, Len(selected))
                          [] t = "CursorToTop" -> 0
                          [] t = "CursorToBottom" ->
                              IF Len(selected) > 0 THEN Len(selected) - 1
                              ELSE UsizeMax
              /\ UNCHANGED <<exec, dir_order, file_list, sql, batches, last, scans, selected, current_screen, alive, listPos, path,
                             tasks, memory, keys, runs, cycle>>
           \/ /\ t = "CursorToBottom" /\ Len(selected) = 0
              /\ Abort

\* ScrollList::unselect_current
unselect_current(sel, position) ==
    IF Get(sel, position) = <<>> THEN sel
    ELSE remove(sel, Get(sel, position)[1].relative_path)

ScrollUnselectCurrent ==
    /\ OnScrollList /\ Recv("UnselectCurrent")
    /\ Pop
    /\ selected' = unselect_current(selected, pos)
    /\ runs' = RunsAfter(selected')
    /\ UNCHANGED <<exec, dir_order, file_list, sql, batches, last, scans, current_screen, alive, pos, listPos, path, tasks,
                   memory, keys, cycle>>

ScrollScriptRunning ==
    /\ OnScrollList /\ Recv("ScriptRunning")
    /\ Pop
    /\ selected' = SetRunning(selected, Head(chan).path)
    /\ UNCHANGED <<exec, dir_order, file_list, sql, batches, last, scans, current_screen, alive, pos, listPos, path, tasks,
                   memory, keys, runs, cycle>>

\* the handler ends with script_memory.insert(..)?: an Err of the store leaves
\* update, and with it App::run, with that error
ScrollScriptFinished ==
    /\ OnScrollList /\ Recv("ScriptFinished")
    /\ LET a == Head(chan) IN
        \/ /\ Pop
           /\ pos' = GoToEntry(selected, a.path, pos)
           /\ selected' = SetFinished(selected, a.path, a.elapsed)
           /\ memory' = insert(memory, a.path, a.crc, TRUE)
           /\ UNCHANGED <<exec, dir_order, file_list, sql, batches, last, scans, current_screen, alive, listPos, path, tasks,
                          keys, runs, cycle>>
        \/ Abort

ScrollScriptError ==
    /\ OnScrollList /\ Recv("ScriptError")
    /\ LET a == Head(chan) IN
        \/ /\ Pop
           /\ pos' = GoToEntry(selected, a.path, pos)
           /\ selected' = SetError(selected, a.path, a.message)
           /\ memory' = ErrorInsert(memory, a.path, a.crc)
           /\ UNCHANGED <<exec, dir_order, file_list, sql, batches, last, scans, current_screen, alive, listPos, path, tasks,
                          keys, runs, cycle>>
        \/ a.crc # <<>> /\ Abort

\* a name for a new task, to tell it from the tasks that have not returned
NewId == CHOOSE i \in 1..(Cardinality(tasks) + 1) : \A t \in tasks : t.id # i

\* Action::ScriptRun: spawn a task for the first entry that did not run
ScrollScriptRun ==
    /\ OnScrollList /\ Recv("ScriptRun")
    /\ Pop
    /\ LET entry == first_not_run_entry(selected) IN
        IF entry = <<>>
        THEN UNCHANGED <<tasks, runs>>
        ELSE /\ tasks' = tasks \cup
                    {[id |-> NewId, path |-> entry[1].relative_path,
                      skip |-> Head(chan).skip, pc |-> "start", out |-> <<>>]}
             /\ runs' = [runs EXCEPT ![entry[1].relative_path] = @ + 1]
    /\ UNCHANGED <<exec, dir_order, file_list, sql, batches, last, scans, selected, current_screen, alive, pos, listPos, path,
                   memory, keys, cycle>>

-----------------------------------------------------------------------------
(* The spawned run task *)

\* send_through_channel(&channel, Action::ScriptRunning(..))
TaskStart ==
    /\ alive
    /\ \E t \in tasks :
        /\ t.pc = "start"
        /\ chan' = Append(chan, ScriptRunningMsg(t.path))
        /\ tasks' = (tasks \ {t}) \cup {[t EXCEPT !.pc = "work"]}
    /\ UNCHANGED <<exec, dir_order, file_list, sql, batches, last, scans, selected, current_screen, keyAt, alive, pos,
                   listPos, path, memory, keys, runs, cycle>>

\* read_to_string and execute_script return; the first message of the outcome
TaskWork ==
    /\ alive
    /\ \E t \in tasks, outcome \in Outcomes :
        /\ t.pc = "work"
        /\ LET out == TaskSends(outcome, t.path, t.skip) IN
            /\ chan' = Append(chan, Head(out))
            /\ tasks' = IF Tail(out) = <<>> THEN tasks \ {t}
                        ELSE (tasks \ {t}) \cup
                             {[t EXCEPT !.pc = "send", !.out = Tail(out)]}
        /\ cycle' = IF outcome # "ok"
                    THEN [cycle EXCEPT !.failed = @ \cup {t.path}]
                    ELSE cycle
    /\ UNCHANGED <<exec, dir_order, file_list, sql, batches, last, scans, selected, current_screen, keyAt, alive, pos,
                   listPos, path, memory, keys, runs>>

\* the following send_through_channel calls of the branch
TaskSend ==
    /\ alive
    /\ \E t \in tasks :
        /\ t.pc = "send"
        /\ chan' = Append(chan, Head(t.out))
        /\ tasks' = IF Tail(t.out) = <<>> THEN tasks \ {t}
                    ELSE (tasks \ {t}) \cup {[t EXCEPT !.out = Tail(t.out)]}
    /\ UNCHANGED <<exec, dir_order, file_list, sql, batches, last, scans, selected, current_screen, keyAt, alive, pos,
                   listPos, path, memory, keys, runs, cycle>>

-----------------------------------------------------------------------------

Next ==
    \/ KeyEvent
    \/ AppSwitchMode
    \/ Ignored
    \/ ListCursor
    \/ ListOpen
    \/ ListLeave
    \/ ListSelectCurrent
    \/ ListUnselectCurrent
    \/ UnselectAll
    \/ ListSelectAllInDirectory
    \/ ListCalculateEntryStatus
    \/ ScanStep
    \/ ListEntryStatusChanged
    \/ ScrollCursor
    \/ ScrollUnselectCurrent
    \/ ScrollScriptRunning
    \/ ScrollScriptFinished
    \/ ScrollScriptError
    \/ ScrollScriptRun
    \/ TaskStart
    \/ TaskWork
    \/ TaskSend

Spec == Init /\ [][Next]_vars

-----------------------------------------------------------------------------
(* SpecQueue: the calls of AppState on their own.  Init draws any queue the *)
(* program can hold (each path once, in ascending relative_path order, in   *)
(* any run state), and one call with any argument is applied to it.         *)

\* the forms an entry of path p takes between Script::none and the handlers
EntryForms(p) ==
    {ScriptNone(p),
     [ScriptNone(p) EXCEPT !.state = "Running"],
     [ScriptNone(p) EXCEPT !.state = "Finished", !.elapsed = <<Elapsed(p)>>]}
    \cup {[ScriptNone(p) EXCEPT !.state = "Error", !.error = <<m>>] :
            m \in {ReadErrorMsg, BatchErrorMsg}}

Queues ==
    UNION {{q \in [1..Cardinality(S) -> UNION {EntryForms(p) : p \in S}] :
              \A i \in 1..Cardinality(S) : q[i].relative_path = SeqOfSet(S)[i]} :
           S \in SUBSET Paths}

\* the slices of paths a caller passes: a directory listing, in any order
PathLists ==
    UNION {{l \in [1..Cardinality(S) -> S] :
              \A i, j \in 1..Cardinality(S) : l[i] = l[j] => i = j} :
           S \in SUBSET Paths}

InitQueue ==
    /\ selected \in Queues
    /\ current_screen = "FileChooser"
    /\ chan = <<>>
    /\ keyAt = 0
    /\ alive = TRUE
    /\ pos = 0
    /\ listPos = 0
    /\ path = <<>>
    /\ tasks = {}
    /\ scans = {}
    /\ memory = [p \in Paths |-> <<>>]
    /\ keys = 0
    /\ runs = [p \in Paths |-> 0]
    /\ cycle = CycleIdle
    /\ sql = <<>>
    /\ batches = <<>>
    /\ exec = ExecIdle
    /\ dir_order = <<>>
    /\ file_list = <<>>
    /\ last = <<>>

\* the call leaves its result in the queue
Call(op, arg, result) ==
    /\ selected' = result
    /\ last' = <<[op |-> op, arg |-> arg, before |-> selected]>>
    /\ UNCHANGED <<current_screen, chan, keyAt, alive, pos, listPos, path,
                   tasks, scans, memory, keys, runs, cycle, sql, batches, exec, dir_order, file_list>>

QueueAdd ==
    /\ last = <<>>
    /\ \E p \in Paths : Call("add", <<p>>, add(selected, p))

QueueRemove ==
    /\ last = <<>>
    /\ \E p \in Paths : Call("remove", <<p>>, remove(selected, p))

QueueToggle ==
    /\ last = <<>>
    /\ \E p \in Paths : Call("toggle", <<p>>, toggle(selected, p))

QueueAddMany ==
    /\ last = <<>>
    /\ \E l \in PathLists : Call("add_many", l, add_many(selected, l))

QueueRemoveMany ==
    /\ last = <<>>
    /\ \E l \in PathLists : Call("remove_many", l, remove_many(selected, l))

QueueToggleMany ==
    /\ last = <<>>
    /\ \E l \in PathLists : Call("toggle_many", l, toggle_many(selected, l))

\* ScrollList::update (Action::AddSelection): the handler's own filter, append
\* and sort on state.selected.  No component of the repository sends the
\* action, so it is applied here as a call on the queue.
\* mutant: the new entries are appended and the queue is not sorted
AddSelection_Append(sel, scripts) ==
    sel \o NewItems(scripts, sel)

AddSelection(sel, scripts) ==
    SortScripts(sel \o NewItems(scripts, sel))

\* Action::RemoveSelection: retain, without a sort
RemoveSelection(sel, scripts) ==
    Retain(sel, PathsOf(sel) \ Range(scripts))

\* ScrollList::unselect_all / List::unselect_all: state.selected.clear()
unselect_all(sel) == <<>>

QueueAddSelection ==
    /\ last = <<>>
    /\ \E l \in PathLists : Call("AddSelection", l, AddSelection(selected, l))

QueueRemoveSelection ==
    /\ last = <<>>
    /\ \E l \in PathLists :
        Call("RemoveSelection", l, RemoveSelection(selected, l))

QueueUnselectAll ==
    /\ last = <<>>
    /\ Call("clear", <<>>, unselect_all(selected))

\* ScrollList::update (Action::ScriptRunning, ScriptFinished, ScriptError) with
\* any path, applied to the queue as the handlers of ScrollList apply them
QueueCall(op, arg) ==
    /\ last' = <<[op |-> op, arg |-> arg, before |-> selected]>>
    /\ UNCHANGED <<current_screen, chan, keyAt, alive, listPos, path, tasks,
                   scans, keys, runs, cycle, sql, batches, exec, dir_order, file_list>>

QueueScriptRunning ==
    /\ last = <<>>
    /\ \E p \in Paths :
        /\ selected' = SetRunning(selected, p)
        /\ QueueCall("ScriptRunning", <<p>>)
    /\ UNCHANGED <<pos, memory>>

QueueScriptFinished ==
    /\ last = <<>>
    /\ \E p \in Paths :
        /\ pos' = GoToEntry(selected, p, pos)
        /\ selected' = SetFinished(selected, p, Elapsed(p))
        /\ memory' = insert(memory, p, Checksum(p), TRUE)
        /\ QueueCall("ScriptFinished", <<p>>)

QueueScriptError ==
    /\ last = <<>>
    /\ \E p \in Paths : \E m \in {ReadErrorMsg, BatchErrorMsg} :
        /\ pos' = GoToEntry(selected, p, pos)
        /\ selected' = SetError(selected, p, m)
        /\ memory' = ErrorInsert(memory, p, IF m = ReadErrorMsg THEN <<>>
                                            ELSE <<Checksum(p)>>)
        /\ QueueCall("ScriptError", <<p, m>>)

NextQueue ==
    \/ QueueAddSelection
    \/ QueueRemoveSelection
    \/ QueueUnselectAll
    \/ QueueScriptRunning
    \/ QueueScriptFinished
    \/ QueueScriptError
    \/ QueueAdd
    \/ QueueRemove
    \/ QueueToggle
    \/ QueueAddMany
    \/ QueueRemoveMany
    \/ QueueToggleMany

SpecQueue == InitQueue /\ [][NextQueue]_vars

-----------------------------------------------------------------------------
(* The run-cycle: one script at a time, skipErrors, failures *)

\* the positions of the channel that hold an action of one of the types
Pending(types) == {i \in 1..Len(chan) : chan[i].type \in types}

\* the tasks that still read or execute their script
Executing == {t \in tasks : t.pc \in {"start", "work"}}

\* the executions between the spawn of the task and the dequeuing of its
\* ScriptFinished or ScriptError message
InFlight ==
    Cardinality(Executing) + Cardinality(Pending({"ScriptFinished", "ScriptError"}))

\* the positions of the queue whose entry is in one of the states
InState(states) == {i \in 1..Len(selected) : selected[i].state \in states}

\* a run-cycle that one Run key opened and no further key disturbed
QuietCycle == alive /\ cycle.open /\ cycle.quiet

\* ... and that has come to rest: nothing runs, nothing is left to receive
CycleOver == QuietCycle /\ keyAt = 0 /\ tasks = {} /\ scans = {} /\ chan = <<>>

\* C1: at most one script execution is in flight (spawned, its completion
\* message not yet received) at any time
C1_OneInFlight == InFlight <= 1

\* C2: a run-cycle with skipErrors = true that no other input disturbs ends
\* with every entry attempted: as many Error entries as scripts failed, all
\* others Finished
C2_SkipErrorsRunsAll ==
    (CycleOver /\ cycle.skip) =>
        /\ InState({"Finished", "Error"}) = 1..Len(selected)
        /\ Cardinality(InState({"Error"})) = Cardinality(cycle.failed)

\* C3: with skipErrors = false the cycle halts at the first failure: no Run
\* trigger is resubmitted or pending, nothing else starts, and the entries
\* behind the failing one are still None
C3_HaltsAtFirstFailure ==
    (QuietCycle /\ ~cycle.skip /\ cycle.failed # {}) =>
        /\ Pending({"ScriptRun"}) = {}
        /\ \A t \in tasks :
            /\ t.pc = "send"
            /\ \A i \in 1..Len(t.out) : t.out[i].type # "ScriptRun"
        /\ Cardinality(cycle.failed) = 1
        /\ \A i, j \in 1..Len(selected) :
            (selected[i].relative_path \in cycle.failed /\ i < j)
                => selected[j].state = "None"

\* the cycle is over, the first script failed and the second was never started
C3_Witness ==
    /\ CycleOver /\ ~cycle.skip /\ cycle.failed # {}
    /\ \E i, j \in 1..Len(selected) :
        /\ i < j
        /\ selected[i].relative_path \in cycle.failed
        /\ selected[i].state = "Error"
        /\ selected[j].state = "None"

\* C4: an entry whose file could not be read is Error with no history record,
\* and the cycle it failed in went on behind it when skipErrors is true and
\* halted when it is false
C4_ReadFailureLikeBatchFailure ==
    CycleOver =>
        \A i \in 1..Len(selected) :
            (selected[i].state = "Error" /\ selected[i].error = <<ReadErrorMsg>>) =>
                /\ memory[selected[i].relative_path] = <<>>
                /\ \A j \in (i + 1)..Len(selected) :
                    IF cycle.skip THEN selected[j].state \in {"Finished", "Error"}
                    ELSE selected[j].state = "None"

-----------------------------------------------------------------------------
(* The handlers of the completion messages, and what a Run step selects *)

\* the step in which ScrollList receives and handles an action of type t
Applied(t) ==
    /\ alive /\ OnScrollList
    /\ chan # <<>> /\ Head(chan).type = t
    /\ alive' /\ chan' = Tail(chan)

\* the entries of path p in a queue
EntriesOf(sel, p) == {sel[i] : i \in {j \in 1..Len(sel) : sel[j].relative_path = p}}

\* the step in which task t, being at pc, sends the action m
Sends(t, pc, m) ==
    /\ t \in tasks /\ t.pc = pc /\ t \notin tasks'
    /\ alive' /\ chan' = Append(chan, m)

\* what is left of task t in the next state
After(t) == {u \in tasks' : u.id = t.id}

\* the tasks a step spawns
Spawned == {t \in tasks' \ tasks : t.pc = "start"}

C5_SuccessStep ==
    /\ Applied("ScriptFinished") =>
        LET a == Head(chan) IN
        /\ PathsOf(selected') = PathsOf(selected)
        /\ \A e \in EntriesOf(selected', a.path) :
            e.state = "Finished" /\ e.elapsed = <<a.elapsed>>
        /\ memory' = [memory EXCEPT ![a.path] = <<[crc |-> a.crc, result |-> TRUE]>>]
    /\ \A t \in tasks :
        /\ Sends(t, "work", ScriptFinishedMsg(t.path, Elapsed(t.path), Checksum(t.path)))
            => \E u \in After(t) :
                u.out = <<EntryStatusChangedMsg(t.path, Finished(TRUE)),
                           ScriptRunMsg(t.skip)>>
        /\ (t.pc = "send" /\ t \notin tasks' /\ alive') =>
            /\ chan' = Append(chan, Head(t.out))
            /\ Tail(t.out) # <<>> => \E u \in After(t) : u.out = Tail(t.out)

\* C5: when ScrollList applies the ScriptFinished message of a script that
\* succeeded, the entry is Finished with the elapsed time and the store holds
\* (path, checksum, true); the task that sent it goes on to send
\* EntryStatusChanged and a ScriptRun with the skip_errors it was started with
C5_Success == [][C5_SuccessStep]_vars

\* an entry is Finished with its time, the store has its record, and the
\* ScriptRun its task resubmitted waits in the channel
C5_Witness ==
    /\ QuietCycle
    /\ \E i \in 1..Len(selected) :
        LET e == selected[i] IN
        /\ e.state = "Finished" /\ e.elapsed = <<Elapsed(e.relative_path)>>
        /\ memory[e.relative_path] =
               <<[crc |-> Checksum(e.relative_path), result |-> TRUE]>>
    /\ \E i \in Pending({"ScriptRun"}) : chan[i].skip = cycle.skip

C6_FailureStep ==
    /\ Applied("ScriptError") =>
        LET a == Head(chan) IN
        /\ PathsOf(selected') = PathsOf(selected)
        /\ \A e \in EntriesOf(selected', a.path) :
            e.state = "Error" /\ e.error = <<a.message>>
        /\ memory' = IF a.crc # <<>>
                     THEN [memory EXCEPT ![a.path] =
                              <<[crc |-> a.crc[1], result |-> FALSE]>>]
                     ELSE memory
    /\ \A t \in tasks :
        \A c \in {<<>>, <<Checksum(t.path)>>} :
            Sends(t, "work", ScriptErrorMsg(t.path, BatchErrorMsg, c))
                => c = <<Checksum(t.path)>>

\* C6: when ScrollList applies the ScriptError message of a script, the entry
\* is Error with the message, and the store gets (path, checksum, false)
\* exactly when the message carries a checksum, which the message of a
\* failed execution does
C6_Failure == [][C6_FailureStep]_vars

\* an entry is Error with the message of the failed batch, recorded as failed
C6_Witness ==
    \E i \in 1..Len(selected) :
        LET e == selected[i] IN
        /\ e.state = "Error" /\ e.error = <<BatchErrorMsg>>
        /\ memory[e.relative_path] =
               <<[crc |-> Checksum(e.relative_path), result |-> FALSE]>>

\* a task about to execute a script whose entry already left None, although
\* another task was spawned for that entry since it was added
Rerun(t) ==
    /\ t \in Executing
    /\ \E e \in EntriesOf(selected, t.path) : e.state # "None"
    /\ runs[t.path] > 1

NoRerun == \A t \in tasks : ~Rerun(t)

C7_Step ==
    /\ \A t \in Spawned :
        \A e \in EntriesOf(selected, t.path) : e.state = "None"
    /\ NoRerun'

\* C7: a Run step selects only an entry in state None, and a script whose
\* entry is Running, Finished or Error is not executed again unless the entry
\* was removed and added again
C7_NoRerun == [][C7_Step]_vars

\* in a quiet cycle the entries that ran come first, in queue order
RanInOrder ==
    \A i, j \in 1..Len(selected) :
        (i < j /\ selected[j].state # "None")
            => selected[i].state \in {"Finished", "Error"}

C8_Step ==
    /\ \A t \in Spawned :
        \E i \in 1..Len(selected) :
            /\ selected[i].relative_path = t.path
            /\ selected[i].state = "None"
            /\ \A j \in 1..(i - 1) : selected[j].state # "None"
    /\ QuietCycle' => (InFlight' <= 1 /\ RanInOrder')

\* C8: a Run step spawns the task of the first entry, in queue order, whose
\* state is None; in a cycle no key disturbs, one script is in flight at a
\* time and every entry before one that was started is Finished or Error
C8_QueueOrder == [][C8_Step]_vars

\* the second script runs, the first one is done
C8_Witness ==
    /\ QuietCycle /\ InFlight = 1
    /\ \E i, j \in 1..Len(selected) :
        /\ i < j
        /\ selected[i].state \in {"Finished", "Error"}
        /\ selected[j].state = "Running"

-----------------------------------------------------------------------------
(* The selection queue after a call of AppState (SpecQueue) *)

\* the call that was applied
Called(ops) == last # <<>> /\ last[1].op \in ops

\* a call that put at least one new entry into the queue
Inserted == last # <<>> /\ PathsOf(selected) \ PathsOf(last[1].before) # {}

\* the comparator of the claim: run-state ordinal, then relative_path
TwoKeyLeq(a, b) ==
    \/ StateOrd(a.state) < StateOrd(b.state)
    \/ a.state = b.state /\ a.relative_path <= b.relative_path

C10_ToggleManyAllOrNothing ==
    Called({"toggle_many"}) =>
        LET before == last[1].before
            paths == Range(last[1].arg)
        IN  /\ Len(selected) = Cardinality(Range(selected))
            /\ IF PathsOf(before) \cap paths # {}
               THEN Range(selected) =
                        {e \in Range(before) : e.relative_path \notin paths}
               ELSE Range(selected) =
                        Range(before) \cup {ScriptNone(p) : p \in paths}

\* one path of paths was selected and another was not: afterwards neither is
C10_Witness ==
    /\ Called({"toggle_many"})
    /\ \E p, q \in Range(last[1].arg) :
        /\ p \in PathsOf(last[1].before)
        /\ q \notin PathsOf(last[1].before)
    /\ PathsOf(selected) \cap Range(last[1].arg) = {}

\* no two entries of the queue share a relative_path
UniquePaths(sel) ==
    \A i, j \in 1..Len(sel) : sel[i].relative_path = sel[j].relative_path => i = j

-----------------------------------------------------------------------------
(* Results that arrive for an entry that was removed *)

\* the messages a run task sends about its script
ResultTypes == {"ScriptRunning", "ScriptFinished", "ScriptError"}

\* a step that takes entries out of the queue and adds none
Removes ==
    /\ alive /\ alive'
    /\ PathsOf(selected') \subseteq PathsOf(selected)
    /\ PathsOf(selected') # PathsOf(selected)

\* a message of a run task is at the head of the channel, ScrollList is the
\* component that gets it, and no entry of its path is selected
LateResult(t) ==
    /\ alive /\ OnScrollList
    /\ chan # <<>> /\ Head(chan).type = t
    /\ Head(chan).path \notin PathsOf(selected)

C12_Step ==
    /\ Removes => tasks' = tasks
    /\ \A t \in ResultTypes :
        (LateResult(t) /\ Applied(t)) => selected' = selected

\* C12: a step that removes entries leaves every run task as it is, and a
\* ScriptRunning, ScriptFinished or ScriptError message that ScrollList
\* applies while no entry of its path is selected leaves the queue unchanged
C12_LateResultIgnored == [][C12_Step]_vars

\* the ScriptFinished message of a script is about to be applied, its entry
\* was removed after the task was spawned, another entry is still selected,
\* and the task goes on with the messages that follow
C12_Witness ==
    /\ LateResult("ScriptFinished")
    /\ selected # <<>>
    /\ \E t \in tasks : t.path = Head(chan).path /\ t.pc = "send"

-----------------------------------------------------------------------------
(* A Run trigger with nothing left to run *)

\* a step of the event loop that receives the action at the head of the
\* channel: no key is read, no run task and no status task moves
Dequeues ==
    /\ alive /\ alive' /\ chan # <<>>
    /\ keys' = keys /\ scans' = scans /\ tasks \subseteq tasks'
    /\ Len(chan') >= Len(chan) - 1
    /\ SubSeq(chan', 1, Len(chan) - 1) = Tail(chan)

C13_Step ==
    ( /\ Dequeues /\ OnScrollList
      /\ Head(chan).type = "ScriptRun"
      /\ \A i \in 1..Len(selected) : selected[i].state # "None" )
    => /\ tasks' = tasks
       /\ selected' = selected
       /\ memory' = memory
       /\ chan' = Tail(chan)

\* C13: when ScrollList receives ScriptRun and no entry is in state None, no
\* task is spawned, the queue and the history store stay as they are and
\* nothing is sent to the channel
C13_RunNoOp == [][C13_Step]_vars

\* the cycle of one Run key is over: every entry is Finished, the ScriptRun
\* that the last task submitted was received and nothing followed it
C13_Witness ==
    /\ CycleOver /\ OnScrollList
    /\ Len(selected) = NumPaths
    /\ \A i \in 1..Len(selected) : selected[i].state = "Finished"

-----------------------------------------------------------------------------
(* A failure of the history store *)

C14_Step ==
    ( /\ alive /\ OnScrollList
      /\ chan # <<>> /\ Head(chan).type \in {"ScriptFinished", "ScriptError"} )
    => alive'

\* C14: while ScrollList is about to record the outcome of a script, no step
\* ends the process, whether or not the write to the history store succeeds
C14_StoreFailureTolerated == [][C14_Step]_vars

-----------------------------------------------------------------------------
(* SpecStore: the calls of ScriptDatabase on their own.  Init draws any      *)
(* table the program can have written (at most one row per name, the name   *)
(* being the primary key), and calls that succeed are applied one after the *)
(* other with any argument; every call opens the database file anew.        *)

\* checksums of two different contents are told apart; these are the ones of
\* the files of the fixture
Crcs == {Checksum(p) : p \in Paths}

Stores ==
    [Paths -> {<<>>} \cup {<<[crc |-> c, result |-> r]>> : c \in Crcs, r \in BOOLEAN}]

InitStore ==
    /\ memory \in Stores
    /\ last = <<>>
    /\ selected = <<>>
    /\ current_screen = "FileChooser"
    /\ chan = <<>>
    /\ keyAt = 0
    /\ alive = TRUE
    /\ pos = 0
    /\ listPos = 0
    /\ path = <<>>
    /\ tasks = {}
    /\ scans = {}
    /\ keys = 0
    /\ runs = [p \in Paths |-> 0]
    /\ cycle = CycleIdle
    /\ sql = <<>>
    /\ batches = <<>>
    /\ exec = ExecIdle
    /\ dir_order = <<>>
    /\ file_list = <<>>

\* the call leaves the table as after and returns ret
StoreCall(op, arg, after, ret) ==
    /\ memory' = after
    /\ last' = <<[op |-> op, arg |-> arg, before |-> memory, ret |-> ret]>>
    /\ UNCHANGED <<selected, current_screen, chan, keyAt, alive, pos, listPos,
                   path, tasks, scans, keys, runs, cycle, sql, batches, exec, dir_order, file_list>>

\* ScriptDatabase::new: CREATE TABLE IF NOT EXISTS on the file that is there
StoreNew ==
    /\ alive
    /\ StoreCall("new", <<>>, memory, <<>>)

StoreInsert ==
    /\ alive
    /\ \E p \in Paths, c \in Crcs, r \in BOOLEAN :
        StoreCall("insert", <<p, c, r>>, insert(memory, p, c, r), <<>>)

StoreGetFileStatus ==
    /\ alive
    /\ \E p \in Paths, c \in Crcs :
        StoreCall("get_file_status", <<p, c>>, memory,
                  <<get_file_status(memory, p, c)>>)

NextStore ==
    \/ StoreNew
    \/ StoreInsert
    \/ StoreGetFileStatus

SpecStore == InitStore /\ [][NextStore]_vars

\* C15: get_file_status(path, checksum) returns NeverStarted when the table
\* has no row for path, Finished(result of the row) when the row's checksum
\* equals checksum, and Changed when the row has another checksum
C15_StatusFor ==
    Called({"get_file_status"}) =>
        LET p == last[1].arg[1]
            c == last[1].arg[2]
            row == last[1].before[p]
            ret == last[1].ret[1]
        IN  /\ row = <<>> => ret = NeverStarted
            /\ (row # <<>> /\ row[1].crc = c) => ret = Finished(row[1].result)
            /\ (row # <<>> /\ row[1].crc # c) => ret = Changed

\* the row of the path records a failed run of another content: Changed
C15_Witness ==
    /\ Called({"get_file_status"})
    /\ last[1].before[last[1].arg[1]] # <<>>
    /\ last[1].before[last[1].arg[1]][1].crc # last[1].arg[2]
    /\ last[1].before[last[1].arg[1]][1].result = FALSE
    /\ last[1].ret = <<Changed>>

\* C16: the table has at most one row per path; a call never takes a row
\* away; and after insert(path, crc, result) the row of path is (crc, result)
\* whatever it was before, and the rows of the other paths are as before
C16_Upsert ==
    /\ \A p \in Paths : Len(memory[p]) <= 1
    /\ last # <<>> =>
        \A p \in Paths : last[1].before[p] # <<>> => memory[p] # <<>>
    /\ Called({"insert"}) =>
        LET a == last[1].arg IN
        /\ memory[a[1]] = <<[crc |-> a[2], result |-> a[3]]>>
        /\ \A q \in Paths \ {a[1]} : memory[q] = last[1].before[q]
    /\ Called({"new", "get_file_status"}) => memory = last[1].before

\* an insert replaced the row of a path by one with another checksum and
\* another result, while the row of another path stayed
C16_Witness ==
    /\ Called({"insert"})
    /\ LET a == last[1].arg
           old == last[1].before[a[1]]
       IN  /\ old # <<>> /\ old[1].crc # a[2] /\ old[1].result # a[3]
           /\ memory[a[1]] = <<[crc |-> a[2], result |-> a[3]]>>
           /\ \E q \in Paths \ {a[1]} : memory[q] # <<>>

-----------------------------------------------------------------------------
(* The status the store gives after a run *)

\* after the step, the status task's question about path p, asked with the
\* checksum of the file as it is, is answered Finished(s)
StatusAfter(p, s) ==
    get_file_status(memory', p, StatusChecksum(p)) = Finished(s)

\* the event loop receives the completion message of a run that computed a
\* checksum: ScriptFinished, or ScriptError with Some(crc)
Completes(s) ==
    /\ Dequeues
    /\ \/ s = TRUE /\ Head(chan).type = "ScriptFinished"
       \/ s = FALSE /\ Head(chan).type = "ScriptError" /\ Head(chan).crc # <<>>

\* the step in which a status task reports on the file p
Reports(p, status) ==
    /\ alive /\ alive'
    /\ \E t \in scans : t \notin scans' /\ Head(t.left) = p
    /\ chan' = Append(chan, EntryStatusChangedMsg(p, status))

C17_Step ==
    /\ \A s \in BOOLEAN :
        (Completes(s) /\ OnScrollList) => StatusAfter(Head(chan).path, s)
    /\ \A p \in Paths, s \in BOOLEAN, status \in {NeverStarted, Changed,
                                                   Finished(TRUE), Finished(FALSE)} :
        ( /\ memory[p] = <<[crc |-> Checksum(p), result |-> s]>>
          /\ Reports(p, status) ) => status = Finished(s)

\* C17: once ScrollList has applied the completion message of a run with
\* outcome s, get_file_status(path, checksum of the unchanged file) returns
\* Finished(s), and that is what a status task then reports for the file: the
\* run task and the status task hash the same bytes
C17_RoundTrip == [][C17_Step]_vars

\* a script has finished and is recorded as succeeded, and a status task is
\* about to ask the store about its file
C17_Witness ==
    /\ alive
    /\ \E i \in 1..Len(selected) :
        LET p == selected[i].relative_path IN
        /\ selected[i].state = "Finished"
        /\ memory[p] = <<[crc |-> Checksum(p), result |-> TRUE]>>
        /\ \E t \in scans : Head(t.left) = p
        /\ get_file_status(memory, p, StatusChecksum(p)) = Finished(TRUE)

-----------------------------------------------------------------------------
(* BatchParser::parse.  A text is a sequence of characters; the characters   *)
(* that matter to the parser are G, O, the single quote, / and *, with " "  *)
(* for any whitespace and x for any other character.                        *)

\* the value last_char starts with
Newline == "\n"

\* char::is_whitespace
is_whitespace(c) == c \in {" ", Newline}

\* mutant: nothing is trimmed from the closed batch
trim_end_matches_None(s, c) == s

RECURSIVE trim_end_matches_Space(_, _)
\* mutant: the whitespace before the G is taken off with it
trim_end_matches_Space(s, c) ==
    IF s # <<>> /\ (s[Len(s)] = c \/ is_whitespace(s[Len(s)]))
    THEN trim_end_matches_Space(SubSeq(s, 1, Len(s) - 1), c)
    ELSE s

RECURSIVE trim_end_matches(_, _)
\* str::trim_end_matches(c): every trailing c is taken off
trim_end_matches(s, c) ==
    IF s # <<>> /\ s[Len(s)] = c
    THEN trim_end_matches(SubSeq(s, 1, Len(s) - 1), c)
    ELSE s

\* mutant: any G before the O will do, whatever stood before it
ConfirmedGo_AnyG(go_detected, text, i) ==
    /\ i > 1 /\ text[i - 1] = "G"
    /\ text[i] = "O"
    /\ (i + 1 > Len(text) \/ is_whitespace(text[i + 1]))

\* mutant: the character after the O is not looked at
ConfirmedGo_NoLookahead(go_detected, text, i) ==
    go_detected /\ text[i] = "O"

\* go_detected && ch == 'O'
\*     && sql.chars().nth(i + 1).map_or(true, |c| c.is_whitespace())
ConfirmedGo(go_detected, text, i) ==
    /\ go_detected
    /\ text[i] = "O"
    /\ (i + 1 > Len(text) \/ is_whitespace(text[i + 1]))

\* the locals of parse before the loop; cuts keeps the indexes of the
\* characters at which a batch was closed
ParserStart ==
    [batches |-> <<>>, current_batch |-> <<>>, last_char |-> Newline,
     string_skipping |-> FALSE, comment_skipping |-> FALSE,
     go_detected |-> FALSE, cuts |-> {}]

\* current_batch.push(ch); last_char = ch;
Push(st, ch) ==
    [st EXCEPT !.current_batch = Append(@, ch), !.last_char = ch]

\* one turn of the loop, for the character at index i
ParseChar(st, text, i) ==
    LET ch == text[i]
        string_skipping ==
            IF ch = "'" /\ ~st.comment_skipping THEN ~st.string_skipping
            ELSE st.string_skipping
        opened ==
            IF ~string_skipping /\ st.last_char = "/" /\ ch = "*" THEN TRUE
            ELSE st.comment_skipping
        comment_skipping ==
            IF ~string_skipping /\ st.last_char = "*" /\ ch = "/" THEN FALSE
            ELSE opened
        s1 == [st EXCEPT !.string_skipping = string_skipping,
                         !.comment_skipping = comment_skipping]
    IN  IF ~string_skipping /\ ~comment_skipping
        THEN IF is_whitespace(st.last_char) /\ ch = "G"
             THEN Push([s1 EXCEPT !.go_detected = TRUE], ch)
             ELSE IF ConfirmedGo(st.go_detected, text, i)
             THEN [s1 EXCEPT
                     !.batches = Append(@, trim_end_matches(st.current_batch, "G")),
                     !.current_batch = <<>>,
                     !.go_detected = FALSE,
                     !.cuts = @ \cup {i}]
             ELSE Push([s1 EXCEPT !.go_detected = FALSE], ch)
        ELSE Push(s1, ch)

RECURSIVE ParseFrom(_, _, _)
\* for (i, ch) in sql.chars().enumerate()
ParseFrom(st, text, i) ==
    IF i > Len(text) THEN st ELSE ParseFrom(ParseChar(st, text, i), text, i + 1)

\* the locals of parse after the loop
ParseLoop(text) == ParseFrom(ParserStart, text, 1)

\* mutant: the remaining batch is added even when it is empty
parse_FlushAlways(text) ==
    LET st == ParseLoop(text)
    IN  Append(st.batches, st.current_batch)

\* BatchParser::parse: the remaining batch is added if it is not empty
parse(text) ==
    LET st == ParseLoop(text)
    IN  IF st.current_batch # <<>> THEN Append(st.batches, st.current_batch)
        ELSE st.batches

-----------------------------------------------------------------------------
(* SpecParse: parse on its own.  Init draws the script text: up to          *)
(* MaxPieces pieces of SQL text in any order.                               *)

MaxPieces == 4

Pieces ==
    {<<"/", "*">>, <<"*", "/">>, <<"/">>, <<"*">>, <<"'">>, <<"x">>, <<" ">>,
     <<"G">>, <<"O">>, <<" ", "G", "O", " ">>}

RECURSIVE Flatten(_)
Flatten(ps) == IF ps = <<>> THEN <<>> ELSE Head(ps) \o Flatten(Tail(ps))

Texts == UNION {{Flatten(ps) : ps \in [1..n -> Pieces]} : n \in 0..MaxPieces}

InitParse ==
    /\ sql \in Texts
    /\ batches = <<>>
    /\ exec = ExecIdle
    /\ dir_order = <<>>
    /\ file_list = <<>>
    /\ last = <<>>
    /\ selected = <<>>
    /\ current_screen = "FileChooser"
    /\ chan = <<>>
    /\ keyAt = 0
    /\ alive = TRUE
    /\ pos = 0
    /\ listPos = 0
    /\ path = <<>>
    /\ tasks = {}
    /\ scans = {}
    /\ memory = [p \in Paths |-> <<>>]
    /\ keys = 0
    /\ runs = [p \in Paths |-> 0]
    /\ cycle = CycleIdle

Parse ==
    /\ last = <<>>
    /\ batches' = parse(sql)
    /\ last' = <<[op |-> "parse", arg |-> sql, before |-> <<>>]>>
    /\ UNCHANGED <<exec, dir_order, file_list, sql, selected, current_screen, chan, keyAt, alive, pos,
                   listPos, path, tasks, scans, memory, keys, runs, cycle>>

NextParse == Parse

SpecParse == InitParse /\ [][NextParse]_vars

\* a GO token starts at index i of the text: the characters G and O, with
\* whitespace or the start of the text before and whitespace or the end after
GoTokenAt(text, i) ==
    /\ i >= 1 /\ i + 1 <= Len(text)
    /\ text[i] = "G" /\ text[i + 1] = "O"
    /\ (i = 1 \/ is_whitespace(text[i - 1]))
    /\ (i + 1 = Len(text) \/ is_whitespace(text[i + 2]))

GoTokens(text) == {i \in 1..Len(text) : GoTokenAt(text, i)}

\* C18 as stated: a text without a GO token gives one batch, the text itself
C18_OneBatch ==
    (Called({"parse"}) /\ GoTokens(sql) = {}) => batches = <<sql>>

\* C18, amended: a text that is not empty and has no GO token gives one batch,
\* the text itself; the empty text gives no batch
C18_OneBatchUnlessEmpty ==
    (Called({"parse"}) /\ GoTokens(sql) = {}) =>
        batches = IF sql = <<>> THEN <<>> ELSE <<sql>>

\* a text that holds the letters G and O next to each other without their
\* being a token, returned as its one batch
C18_Witness ==
    /\ Called({"parse"})
    /\ GoTokens(sql) = {}
    /\ \E i \in 1..(Len(sql) - 2) :
        /\ is_whitespace(sql[i]) /\ sql[i + 1] = "G" /\ sql[i + 2] = "O"
    /\ batches = <<sql>>

\* the indexes of the O of every GO that parse confirmed in the text
Cuts(text) == ParseLoop(text).cuts

RECURSIVE Segments(_, _, _)
\* the text from index from on, cut at the GO that ends at each index of cs:
\* the part before its G, then the parts of what follows its O; what is left
\* behind the last GO is a part if it is not empty
Segments(text, from, cs) ==
    IF cs = {}
    THEN IF from > Len(text) THEN <<>> ELSE <<SubSeq(text, from, Len(text))>>
    ELSE LET c == CHOOSE x \in cs : \A y \in cs : x <= y
         IN  <<SubSeq(text, from, c - 2)>> \o Segments(text, c + 1, cs \ {c})

\* C19: every GO that parse confirms is the G appended just before and the O
\* itself; the batch it closes is the text since the previous GO up to, and
\* without, that G, and the next batch begins right behind the O
C19_SplitAtGo ==
    Called({"parse"}) =>
        /\ \A c \in Cuts(sql) : c >= 2 /\ sql[c - 1] = "G" /\ sql[c] = "O"
        /\ batches = Segments(sql, 1, Cuts(sql))

\* one GO with text on both sides: the first batch ends with the whitespace
\* before the GO, the second begins with the whitespace behind it
C19_Witness ==
    /\ Called({"parse"})
    /\ \E c \in Cuts(sql) :
        /\ Cuts(sql) = {c}
        /\ c > 3 /\ c + 1 < Len(sql)
        /\ batches = <<SubSeq(sql, 1, c - 2), SubSeq(sql, c + 1, Len(sql))>>
        /\ is_whitespace(batches[1][Len(batches[1])])
        /\ is_whitespace(batches[2][1])

-----------------------------------------------------------------------------
(* Strings and comments as the claims mean them: read from left to right, a *)
(* single quote outside a comment opens a string that the next quote        *)
(* closes, and the two characters / * outside a string open a comment that  *)
(* the next two characters * / behind them close.                           *)

RECURSIVE Contexts(_, _, _)
\* for each character from index i on, what it belongs to, mode being where
\* the reading stands before it
Contexts(text, i, mode) ==
    IF i > Len(text) THEN <<>>
    ELSE LET two == IF i < Len(text) THEN <<text[i], text[i + 1]>> ELSE <<>>
         IN  CASE mode = "code" /\ two = <<"/", "*">> ->
                    <<"comment", "comment">> \o Contexts(text, i + 2, "comment")
               [] mode = "code" /\ two # <<"/", "*">> /\ text[i] = "'" ->
                    <<"string">> \o Contexts(text, i + 1, "string")
               [] mode = "code" /\ two # <<"/", "*">> /\ text[i] # "'" ->
                    <<"code">> \o Contexts(text, i + 1, "code")
               [] mode = "string" ->
                    <<"string">> \o
                    Contexts(text, i + 1, IF text[i] = "'" THEN "code" ELSE "string")
               [] mode = "comment" /\ two = <<"*", "/">> ->
                    <<"comment", "comment">> \o Contexts(text, i + 2, "code")
               [] mode = "comment" /\ two # <<"*", "/">> ->
                    <<"comment">> \o Contexts(text, i + 1, "comment")

\* the character at index i is outside every string and comment
InCode(text, i) == Contexts(text, 1, "code")[i] = "code"

\* the character at index i is inside a string or comment that is closed
\* further on in the text
Enclosed(text, i) ==
    LET ctx == Contexts(text \o <<"x">>, 1, "code")
    IN  /\ ctx[i] # "code"
        /\ \E j \in (i + 1)..(Len(text) + 1) : ctx[j] = "code"

\* C20: a GO token inside a string or a block comment is not a split, and a
\* GO token outside every string and comment is one
C20_QuotedGoNeverSplits ==
    Called({"parse"}) =>
        \A i \in GoTokens(sql) :
            /\ Enclosed(sql, i) => (i + 1) \notin Cuts(sql)
            /\ InCode(sql, i) => (i + 1) \in Cuts(sql)

-----------------------------------------------------------------------------
(* Where the parser splits *)

\* C21: every split is at a G that is the first character of the text or
\* stands behind whitespace, followed by an O that is the last character or
\* stands before whitespace
C21_SplitsOnlyAtTokens ==
    Called({"parse"}) => \A c \in Cuts(sql) : GoTokenAt(sql, c - 1)

\* a text with the letters GO inside or at the end of a word, which is no
\* split, and with a GO token, which is one
C21_Witness ==
    /\ Called({"parse"})
    /\ Cuts(sql) # {}
    /\ \E i \in 1..(Len(sql) - 1) :
        /\ sql[i] = "G" /\ sql[i + 1] = "O"
        /\ ~GoTokenAt(sql, i)
        /\ (i + 1) \notin Cuts(sql)

\* string_skipping || comment_skipping as the parser has them once it has
\* read the character at index i
Skipping(text, i) ==
    LET st == ParseFrom(ParserStart, SubSeq(text, 1, i), 1)
    IN  st.string_skipping \/ st.comment_skipping

\* the GO tokens of the text that the parser does not take to be inside a
\* string or a comment
Unsuppressed(text) == {i \in GoTokens(text) : ~Skipping(text, i)}

\* the text ends with such a token
EndsWithGo(text) == Len(text) - 1 \in Unsuppressed(text)

\* C22 as stated: a text that is not empty gives at least one batch, and
\* every text gives one batch more than it has GO tokens not suppressed
C22_TokensPlusOne ==
    Called({"parse"}) =>
        /\ sql # <<>> => Len(batches) >= 1
        /\ Len(batches) = Cardinality(Unsuppressed(sql)) + 1

\* C22, amended: a text that is not empty gives at least one batch; a text
\* gives one batch more than it has GO tokens not suppressed, unless it is
\* empty or ends with such a token, and then it gives as many as it has
C22_TokensPlusRest ==
    Called({"parse"}) =>
        /\ sql # <<>> => Len(batches) >= 1
        /\ Len(batches) = Cardinality(Unsuppressed(sql))
                            + (IF sql = <<>> \/ EndsWithGo(sql) THEN 0 ELSE 1)

\* a text that ends with its one GO: one batch, the text before the GO
C22_Witness ==
    /\ Called({"parse"})
    /\ EndsWithGo(sql)
    /\ Cardinality(Unsuppressed(sql)) = 1
    /\ Len(batches) = 1 /\ batches[1] # <<>>

\* C23: no batch that parse returns is the empty string
C23_NoEmptyBatch ==
    Called({"parse"}) => \A i \in 1..Len(batches) : batches[i] # <<>>

-----------------------------------------------------------------------------
(* SpecExec: Database::execute_script on its own.  Init draws the script:   *)
(* up to MaxPieces pieces of text and GO lines, with or without a byte      *)
(* order mark in front.  Connecting and every simple_query return Ok or Err *)
(* as the server decides.                                                   *)

\* U+FEFF, three bytes in UTF-8
Bom == "bom"

\* if script.starts_with('\u{feff}') { script = &script[3..]; }
StripBom(script) ==
    IF script # <<>> /\ Head(script) = Bom THEN Tail(script) ELSE script

ScriptPieces == {<<"x">>, <<" ", "G", "O", " ">>}

Scripts ==
    LET bodies == UNION {{Flatten(ps) : ps \in [1..n -> ScriptPieces]} :
                            n \in 0..MaxPieces}
    IN  bodies \cup {<<Bom>> \o b : b \in bodies}

\* a failure of the k-th call (0: of connecting)
Err(k) == <<"Err", k>>

Ok == <<"Ok">>

InitExec ==
    /\ sql \in Scripts
    /\ batches = <<>>
    /\ exec = [pc |-> "connect", sent |-> <<>>, result |-> <<>>]
    /\ dir_order = <<>>
    /\ file_list = <<>>
    /\ last = <<>>
    /\ selected = <<>>
    /\ current_screen = "FileChooser"
    /\ chan = <<>>
    /\ keyAt = 0
    /\ alive = TRUE
    /\ pos = 0
    /\ listPos = 0
    /\ path = <<>>
    /\ tasks = {}
    /\ scans = {}
    /\ memory = [p \in Paths |-> <<>>]
    /\ keys = 0
    /\ runs = [p \in Paths |-> 0]
    /\ cycle = CycleIdle

ExecFrame ==
    UNCHANGED <<dir_order, file_list, sql, last, selected, current_screen, chan, keyAt, alive, pos,
                listPos, path, tasks, scans, memory, keys, runs, cycle>>

\* mutant: an Err of simple_query is noted and the loop goes on
AfterQuery_Continue(outcome) == "query"

\* client.simple_query(batch).await?: an Err leaves the function
AfterQuery(outcome) == IF outcome = "err" THEN "return" ELSE "query"

\* TcpStream::connect(..).await? and Client::connect(..).await? fail
ExecConnectErr ==
    /\ exec.pc = "connect"
    /\ exec' = [exec EXCEPT !.pc = "return", !.result = Err(0)]
    /\ UNCHANGED batches
    /\ ExecFrame

\* the connection stands: let parse = BatchParser::parse(&script)
ExecParse ==
    /\ exec.pc = "connect"
    /\ batches' = parse(StripBom(sql))
    /\ exec' = [exec EXCEPT !.pc = "query"]
    /\ ExecFrame

\* for batch in parse.batches { client.simple_query(batch).await?; }
ExecQuery ==
    /\ exec.pc = "query"
    /\ Len(exec.sent) < Len(batches)
    /\ \E outcome \in {"ok", "err"} :
        exec' = [pc |-> AfterQuery(outcome),
                 sent |-> Append(exec.sent, batches[Len(exec.sent) + 1]),
                 result |-> IF outcome = "err" THEN Err(Len(exec.sent) + 1)
                            ELSE exec.result]
    /\ UNCHANGED batches
    /\ ExecFrame

\* Ok(())
ExecOk ==
    /\ exec.pc = "query"
    /\ Len(exec.sent) = Len(batches)
    /\ exec' = [exec EXCEPT !.pc = "return",
                            !.result = IF @ = <<>> THEN Ok ELSE @]
    /\ UNCHANGED batches
    /\ ExecFrame

NextExec ==
    \/ ExecConnectErr
    \/ ExecParse
    \/ ExecQuery
    \/ ExecOk

SpecExec == InitExec /\ [][NextExec]_vars

\* C24: the calls made so far are the first batches of the script, one call
\* each and in the order of the parser; once a call has failed no further
\* batch is sent and the result is that failure; the result is Ok only when
\* every batch was sent and none failed
C24_BatchesInOrder ==
    /\ Len(exec.sent) <= Len(batches)
    /\ \A i \in 1..Len(exec.sent) : exec.sent[i] = batches[i]
    /\ \A k \in 1..Len(batches) :
        exec.result = Err(k) => exec.pc = "return" /\ Len(exec.sent) = k
    /\ exec.result = Err(0) => exec.sent = <<>>
    /\ exec.pc = "return" => exec.result # <<>>
    /\ exec.result = Ok => exec.sent = batches

\* a script of three batches whose second batch failed: two calls were made
C24_Witness ==
    /\ exec.pc = "return"
    /\ Len(batches) = 3
    /\ exec.result = Err(2)
    /\ exec.sent = <<batches[1], batches[2]>>
    /\ batches[1] # batches[2]

-----------------------------------------------------------------------------
(* SpecRepo: the Repository on its own, over a small directory tree.  A     *)
(* file name is a sequence of characters, a path a sequence of file names.  *)
(* read_dir and WalkDir hand out the children of a directory in an order    *)
(* the operating system chooses.                                            *)

MaxDepth == 2

Sep == "/"

\* the bytes of the characters used, for the order of strings
CharCode(c) ==
    CASE c = "." -> 46 [] c = "/" -> 47 [] c = "_" -> 95
      [] c = "a" -> 97 [] c = "b" -> 98 [] c = "c" -> 99 [] c = "d" -> 100
      [] c = "e" -> 101 [] c = "f" -> 102 [] c = "g" -> 103 [] c = "h" -> 104
      [] c = "l" -> 108 [] c = "n" -> 110 [] c = "q" -> 113 [] c = "r" -> 114
      [] c = "s" -> 115 [] c = "t" -> 116 [] c = "x" -> 120 [] c = "z" -> 122

\* Ord of String: byte by byte, a prefix first
RECURSIVE StrLess(_, _)
StrLess(a, b) ==
    IF b = <<>> THEN FALSE
    ELSE IF a = <<>> THEN TRUE
    ELSE IF Head(a) # Head(b) THEN CharCode(Head(a)) < CharCode(Head(b))
    ELSE StrLess(Tail(a), Tail(b))

SqlName(c) == <<c, ".", "s", "q", "l">>

\* the root given to Repository::new
Root == << <<"r">> >>

\* a name that is in no directory
Missing == <<"n">>

File(rel) == [path |-> Root \o rel, is_dir |-> FALSE]

Dir(rel) == [path |-> Root \o rel, is_dir |-> TRUE]

\* the directory tree: r/{a.sql, b.sql, d/{a.sql, z/{f.sql, _h.sql, c.txt},
\* .g/{x.sql}}}
Fs ==
    { Dir(<<>>),
      File(<<SqlName("a")>>), File(<<SqlName("b")>>),
      Dir(<< <<"d">> >>),
      File(<< <<"d">>, SqlName("a")>>),
      Dir(<< <<"d">>, <<"z">> >>),
      File(<< <<"d">>, <<"z">>, SqlName("f")>>),
      File(<< <<"d">>, <<"z">>, <<"_", "h", ".", "s", "q", "l">> >>),
      Dir(<< <<"d">>, <<".", "g">> >>),
      File(<< <<"d">>, <<"z">>, <<"c", ".", "t", "x", "t">> >>),
      File(<< <<"d">>, <<".", "g">>, SqlName("x")>>) }

\* Path::is_dir
is_dir(p) == \E n \in Fs : n.path = p /\ n.is_dir

Children(p) ==
    {n.path : n \in {m \in Fs : /\ Len(m.path) = Len(p) + 1
                               /\ SubSeq(m.path, 1, Len(p)) = p}}

\* the orders in which a set can be handed out
Perms(S) ==
    {s \in [1..Cardinality(S) -> S] :
        \A i, j \in 1..Cardinality(S) : i # j => s[i] # s[j]}

\* std::fs::read_dir: the children in the order of the system, or Err
read_dir(p) == IF is_dir(p) THEN <<"Ok", dir_order[p]>> ELSE <<"Err">>

Dirs == {n.path : n \in {m \in Fs : m.is_dir}}

\* the orders the system can have chosen, one for every directory
RECURSIVE Enumerations(_)
Enumerations(ds) ==
    IF ds = {} THEN {<<>>}
    ELSE LET d == CHOOSE x \in ds : TRUE
         IN  {(d :> s) @@ f : s \in Perms(Children(d)),
                              f \in Enumerations(ds \ {d})}

\* Path::file_name
file_name(p) == p[Len(p)]

\* s.starts_with('_') || s.starts_with('.')
is_hidden(name) == name # <<>> /\ Head(name) \in {"_", "."}

\* Path::extension: behind the last dot, none when the only dot is in front
extension(name) ==
    LET dots == {i \in 2..Len(name) : name[i] = "."}
    IN  IF dots = {} THEN <<>>
        ELSE LET k == CHOOSE i \in dots : \A j \in dots : j <= i
             IN  <<SubSeq(name, k + 1, Len(name))>>

IsSql(name) == extension(name) = << <<"s", "q", "l">> >>

\* PathBuf::join: an absolute item replaces the path
join(acc, item) ==
    IF item # <<>> /\ Head(item) = Sep THEN <<item>> ELSE Append(acc, item)

RECURSIVE Fold(_, _)
Fold(acc, items) ==
    IF items = <<>> THEN acc ELSE Fold(join(acc, Head(items)), Tail(items))

\* Repository::current_as_path_buf
current_as_path_buf(stack) == Fold(Root, stack)

\* Path::to_str: the file names with the separator between them
RECURSIVE to_str(_)
to_str(p) ==
    IF p = <<>> THEN <<>>
    ELSE IF Len(p) = 1 THEN Head(p)
    ELSE Head(p) \o <<Sep>> \o to_str(Tail(p))

\* str::replace(pat, ""): every occurrence of pat is taken out
RECURSIVE Replace(_, _)
Replace(s, pat) ==
    IF Len(s) < Len(pat) THEN s
    ELSE IF SubSeq(s, 1, Len(pat)) = pat
         THEN Replace(SubSeq(s, Len(pat) + 1, Len(s)), pat)
    ELSE <<Head(s)>> \o Replace(Tail(s), pat)

\* str::trim_start_matches(MAIN_SEPARATOR)
RECURSIVE trim_start_matches(_)
trim_start_matches(s) ==
    IF s # <<>> /\ Head(s) = Sep THEN trim_start_matches(Tail(s)) ELSE s

\* path_str.replace(base, "").trim_start_matches(MAIN_SEPARATOR)
Fixed(p) == trim_start_matches(Replace(to_str(p), to_str(Root)))

\* Path::strip_prefix(base), to_str, trim_start_matches
Stripped(p) ==
    IF Len(p) >= Len(Root) /\ SubSeq(p, 1, Len(Root)) = Root
    THEN <<trim_start_matches(to_str(SubSeq(p, Len(Root) + 1, Len(p))))>>
    ELSE <<>>

\* Repository::open_directory
open_directory(stack, directory_name) == Append(stack, directory_name)

\* mutant: leaving goes back to the root at once
leave_directory_ToRoot(stack) ==
    IF stack = <<>> THEN [path |-> <<>>, ret |-> <<>>]
    ELSE [path |-> <<>>, ret |-> <<stack[Len(stack)]>>]

\* Repository::leave_directory: the stack left and the Option returned
leave_directory(stack) ==
    IF stack = <<>> THEN [path |-> <<>>, ret |-> <<>>]
    ELSE [path |-> SubSeq(stack, 1, Len(stack) - 1),
          ret |-> <<stack[Len(stack)]>>]

ListEntry(p) ==
    [is_directory |-> is_dir(p), relative_path |-> Fixed(p),
     name |-> file_name(p), selected |-> FALSE]

\* mutant: names with '_' or '.' in front are listed as well
EntryOf_Hidden(p) ==
    IF is_dir(p) THEN <<ListEntry(p)>>
    ELSE IF IsSql(file_name(p)) THEN <<ListEntry(p)>>
    ELSE <<>>

\* the closure of read_entries_in_current_directory
EntryOf(p) ==
    IF is_hidden(file_name(p)) THEN <<>>
    ELSE IF is_dir(p) THEN <<ListEntry(p)>>
    ELSE IF IsSql(file_name(p)) THEN <<ListEntry(p)>>
    ELSE <<>>

\* Ord of ListEntry: by relative path
EntryLess(a, b) == StrLess(a.relative_path, b.relative_path)

RECURSIVE InsertEntry(_, _)
InsertEntry(s, e) ==
    IF s = <<>> THEN <<e>>
    ELSE IF EntryLess(e, Head(s)) THEN <<e>> \o s
    ELSE <<Head(s)>> \o InsertEntry(Tail(s), e)

\* entries.sort()
RECURSIVE SortEntries(_)
SortEntries(s) ==
    IF s = <<>> THEN <<>>
    ELSE InsertEntry(SortEntries(SubSeq(s, 1, Len(s) - 1)), s[Len(s)])

\* Repository::read_entries_in_current_directory over a result of read_dir
read_entries_in_current_directory(listing) ==
    IF listing[1] = "Ok"
    THEN SortEntries(Flatten([i \in 1..Len(listing[2]) |->
                                 EntryOf(listing[2][i])]))
    ELSE <<>>

\* the closure of read_files_after_in_directory: (fixed, file_name)
FileOf(p) ==
    IF is_hidden(file_name(p)) \/ is_dir(p) THEN <<>>
    ELSE IF IsSql(file_name(p)) THEN << <<Fixed(p), file_name(p)>> >>
    ELSE <<>>

\* skip_while(|path| path.1 != from)
RECURSIVE SkipToName(_, _)
SkipToName(s, from) ==
    IF s = <<>> THEN <<>>
    ELSE IF Head(s)[2] # from THEN SkipToName(Tail(s), from)
    ELSE s

\* Repository::read_files_after_in_directory over a result of read_dir
read_files_after_in_directory(listing, from) ==
    IF listing[1] = "Ok"
    THEN LET files == Flatten([i \in 1..Len(listing[2]) |->
                                  FileOf(listing[2][i])])
             kept == SkipToName(files, from)
         IN  <<"Ok", [i \in 1..Len(kept) |-> kept[i][1]]>>
    ELSE <<"Err">>

\* WalkDir::new(p).into_iter().filter_entry(|e| !is_hidden(e)): a directory
\* before its contents, nothing of a hidden entry
RECURSIVE Walk(_, _)
Walk(p, ord) ==
    IF is_hidden(file_name(p)) THEN <<>>
    ELSE IF is_dir(p)
         THEN <<p>> \o Flatten([i \in 1..Len(ord[p]) |-> Walk(ord[p][i], ord)])
    ELSE <<p>>

\* skip_while(|f| f.path().to_str().unwrap() != target)
RECURSIVE SkipToPath(_, _)
SkipToPath(s, target) ==
    IF s = <<>> THEN <<>>
    ELSE IF Head(s) # target THEN SkipToPath(Tail(s), target)
    ELSE s

\* the closure of read_files_after
SqlOf(p) == IF IsSql(file_name(p)) THEN Stripped(p) ELSE <<>>

\* mutant: only the current directory is walked
WalkStart_Current(stack) == current_as_path_buf(stack)

\* WalkDir::new(&base)
WalkStart(stack) == Root

\* Repository::read_files_after over the orders the walk meets
read_files_after(stack, from, ord) ==
    LET target == join(current_as_path_buf(stack), from)
        kept == SkipToPath(Walk(WalkStart(stack), ord), target)
    IN  Flatten([i \in 1..Len(kept) |-> SqlOf(kept[i])])

\* the names the List hands to the repository
Names == {file_name(n.path) : n \in Fs \ {Dir(<<>>)}} \cup {Missing}

DirNames == {file_name(d) : d \in Dirs \ {Root}} \cup {Missing}

InitRepo ==
    /\ path = <<>>
    /\ last = <<>>
    /\ sql = <<>>
    /\ batches = <<>>
    /\ exec = ExecIdle
    /\ dir_order \in Enumerations(Dirs)
    /\ file_list = <<>>
    /\ selected = <<>>
    /\ current_screen = "FileChooser"
    /\ chan = <<>>
    /\ keyAt = 0
    /\ alive = TRUE
    /\ pos = 0
    /\ listPos = 0
    /\ tasks = {}
    /\ scans = {}
    /\ memory = [p \in Paths |-> <<>>]
    /\ keys = 0
    /\ runs = [p \in Paths |-> 0]
    /\ cycle = CycleIdle

RepoCall(op, arg, seen, ret) ==
    /\ last' = <<[op |-> op, arg |-> arg, before |-> path, seen |-> seen,
                  ret |-> ret]>>
    /\ UNCHANGED <<dir_order, file_list, sql, batches, exec, selected, current_screen, chan, keyAt,
                   alive, pos, listPos, tasks, scans, memory, keys, runs,
                   cycle>>

RepoOpen ==
    /\ Len(path) < MaxDepth
    /\ \E name \in DirNames :
        /\ path' = open_directory(path, name)
        /\ RepoCall("open_directory", name, <<>>, <<>>)

RepoLeave ==
    /\ path' = leave_directory(path).path
    /\ RepoCall("leave_directory", <<>>, <<>>, leave_directory(path).ret)

RepoEntries ==
    /\ LET listing == read_dir(current_as_path_buf(path))
       IN  RepoCall("read_entries_in_current_directory", <<>>, listing,
                    read_entries_in_current_directory(listing))
    /\ UNCHANGED path

RepoFilesAfterInDirectory ==
    /\ \E from \in Names :
        LET listing == read_dir(current_as_path_buf(path))
        IN  RepoCall("read_files_after_in_directory", from, listing,
                     read_files_after_in_directory(listing, from))
    /\ UNCHANGED path

RepoFilesAfter ==
    /\ \E from \in Names :
        RepoCall("read_files_after", from, Walk(Root, dir_order),
                 read_files_after(path, from, dir_order))
    /\ UNCHANGED path

NextRepo ==
    \/ RepoOpen
    \/ RepoLeave
    \/ RepoEntries
    \/ RepoFilesAfterInDirectory
    \/ RepoFilesAfter

SpecRepo == InitRepo /\ [][NextRepo]_vars

-----------------------------------------------------------------------------
(* Claims about the Repository *)

\* the path lies in the subtree of the root
InSubtree(p) == Len(p) >= Len(Root) /\ SubSeq(p, 1, Len(Root)) = Root

\* C25: the cursor is a stack on a fixed root: open_directory pushes the name,
\* whether or not such a directory exists; leave_directory takes the last name
\* pushed off and returns it, and at the root returns None and stays; the
\* cursor stays in the subtree of the root, and leaving after opening gives
\* the cursor back
C25_CursorIsStack ==
    /\ InSubtree(current_as_path_buf(path))
    /\ Called({"open_directory"}) =>
        path = Append(last[1].before, last[1].arg)
    /\ Called({"leave_directory"}) /\ last[1].before # <<>> =>
        /\ last[1].ret = <<last[1].before[Len(last[1].before)]>>
        /\ Append(path, last[1].ret[1]) = last[1].before
    /\ Called({"leave_directory"}) /\ last[1].before = <<>> =>
        last[1].ret = <<>> /\ path = <<>>
    /\ \A name \in DirNames :
        /\ leave_directory(open_directory(path, name)).path = path
        /\ leave_directory(open_directory(path, name)).ret = <<name>>

\* a directory that does not exist was opened below another and left again
C25_Witness ==
    /\ Called({"leave_directory"})
    /\ Len(last[1].before) = 2
    /\ last[1].ret = <<Missing>>
    /\ ~is_dir(current_as_path_buf(last[1].before))
    /\ Len(path) = 1


\* the children of a directory that a listing is to show: the name has no '_'
\* or '.' in front, and it is a directory or its name ends in .sql
Listed(dir) ==
    {c \in Children(dir) :
        /\ file_name(c)[1] \notin {"_", "."}
        /\ \/ \E n \in Fs : n.path = c /\ n.is_dir
           \/ /\ Len(file_name(c)) > 4
              /\ SubSeq(file_name(c), Len(file_name(c)) - 3, Len(file_name(c)))
                     = <<".", "s", "q", "l">>}

\* the path below the root, as a string
Relative(p) == to_str(SubSeq(p, Len(Root) + 1, Len(p)))

\* C26: read_entries_in_current_directory returns one entry for every child
\* of the current directory that is not hidden and is a directory or a .sql
\* file, and no other, in ascending order of relative path
C26_ListCurrent ==
    Called({"read_entries_in_current_directory"}) =>
        LET dir == current_as_path_buf(last[1].before)
            ret == last[1].ret
        IN  /\ Len(ret) = Cardinality(Listed(dir))
            /\ \A c \in Listed(dir) : \E i \in 1..Len(ret) :
                /\ ret[i].name = file_name(c)
                /\ ret[i].relative_path = Relative(c)
                /\ ret[i].is_directory = (\E n \in Fs : n.path = c /\ n.is_dir)
            /\ \A i, j \in 1..Len(ret) :
                i < j => StrLess(ret[i].relative_path, ret[j].relative_path)

\* the system handed out d/z first and d/a.sql last, with a hidden directory
\* between them: the listing is a.sql, z
C26_Witness ==
    /\ Called({"read_entries_in_current_directory"})
    /\ last[1].before = << <<"d">> >>
    /\ file_name(last[1].seen[2][1]) = <<"z">>
    /\ file_name(last[1].seen[2][2]) = <<".", "g">>
    /\ Len(last[1].ret) = 2
    /\ last[1].ret[1].name = SqlName("a")
    /\ last[1].ret[2].is_directory


\* C27: read_files_after_in_directory returns the .sql files of the current
\* directory from the one named by the anchor on, in ascending order, and
\* returns the same for every order in which the system can hand out the
\* directory
C27_FilesFromSorted ==
    Called({"read_files_after_in_directory"}) /\ last[1].ret[1] = "Ok" =>
        LET dir == current_as_path_buf(last[1].before)
            ret == last[1].ret[2]
        IN  /\ \A i, j \in 1..Len(ret) : i < j => StrLess(ret[i], ret[j])
            /\ \A s \in Perms(Children(dir)) :
                read_files_after_in_directory(<<"Ok", s>>, last[1].arg)[2] = ret


\* the entries of the tree with no hidden name below the root
Visible ==
    {p \in {n.path : n \in Fs} :
        \A k \in (Len(Root) + 1)..Len(p) : p[k][1] \notin {"_", "."}}

\* p lies below the directory d
Below(p, d) == Len(p) > Len(d) /\ SubSeq(p, 1, Len(d)) = d

\* a .sql file: not a directory, the name ends in .sql
SqlFile(p) ==
    /\ \E n \in Fs : n.path = p /\ ~n.is_dir
    /\ Len(file_name(p)) > 4
    /\ SubSeq(file_name(p), Len(file_name(p)) - 3, Len(file_name(p)))
           = <<".", "s", "q", "l">>

\* C28: read_files_after walks the whole tree under the root, every entry that
\* is not hidden once and a directory before and together with its contents,
\* and returns the .sql files of the walk from the anchor, the entry of the
\* current directory with the given name, to the end, in the order of the
\* walk, and none from before the anchor; when the walk does not meet the
\* anchor it returns nothing
C28_FilesFromRecursive ==
    Called({"read_files_after"}) =>
        LET walk == last[1].seen
            ret == last[1].ret
            anchor == Append(current_as_path_buf(last[1].before), last[1].arg)
            met == {i \in 1..Len(walk) : walk[i] = anchor}
        IN  /\ Range(walk) = Visible /\ Len(walk) = Cardinality(Visible)
            /\ \A i \in 1..Len(walk) : \A d \in Dirs :
                Below(walk[i], d) =>
                    \E j \in 1..(i - 1) :
                        /\ walk[j] = d
                        /\ \A k \in j + 1..i : Below(walk[k], d)
            /\ met = {} => ret = <<>>
            /\ \A k \in met :
                LET rest == SelectSeq(SubSeq(walk, k, Len(walk)), SqlFile)
                IN  ret = [i \in 1..Len(rest) |-> Relative(rest[i])]

\* from d, anchor a.sql: the walk met b.sql and d/z/f.sql before the anchor
\* and a.sql of the root after it; the result is d/a.sql, a.sql
C28_Witness ==
    /\ Called({"read_files_after"})
    /\ last[1].before = << <<"d">> >>
    /\ last[1].arg = SqlName("a")
    /\ last[1].ret = <<to_str(<< <<"d">>, SqlName("a")>>), SqlName("a")>>

-----------------------------------------------------------------------------
(* The run state of a selected entry *)

\* C29: whatever call or message is applied to the queue, an entry whose
\* state was not None and whose path is still selected afterwards does not
\* have the state None: only taking the entry out and adding it again gives
\* a fresh one
C29_StateNotReset ==
    last # <<>> =>
        \A i \in 1..Len(last[1].before) :
            last[1].before[i].state # "None" =>
                \A j \in 1..Len(selected) :
                    selected[j].relative_path = last[1].before[i].relative_path
                        => selected[j].state # "None"

\* add_many with the path of a finished entry and a new path: the finished
\* entry is kept as it was, next to the new one
C29_Witness ==
    /\ Called({"add_many"})
    /\ Len(last[1].before) = 1
    /\ last[1].before[1].state = "Finished"
    /\ last[1].before[1].relative_path \in Range(last[1].arg)
    /\ Len(selected) = 2
    /\ last[1].before[1] \in Range(selected)
    /\ \E j \in 1..2 : selected[j].state = "None"

-----------------------------------------------------------------------------
(* SpecFileList: the paged FileList on its own.  Init draws a list as it is *)
(* constructed (cursor and page 0, a height of at least one row, any number *)
(* of entries); the moves, resize and set_entries are applied in any order. *)

MaxEntries == 5
MaxHeight == 3

\* n - 1 on usize; on 0 it wraps in a release build
Pred(n) == IF n = 0 THEN UsizeMax ELSE n - 1

\* utils::round_up_division: the quotient, rounded up
round_up_division(a, b) == (a + b - 1) \div b

\* the entries a directory listing can give: 1, 2, .., n
EntryLists == {[i \in 1..n |-> i] : n \in 0..MaxEntries}

Heights == 1..MaxHeight

\* entries.iter().skip(height * page_index).take(height)
get_page_entries(l) ==
    LET from == l.height * l.page_index
        upto == IF from + l.height < Len(l.entries) THEN from + l.height
                ELSE Len(l.entries)
    IN  IF from >= Len(l.entries) THEN <<>>
        ELSE SubSeq(l.entries, from + 1, upto)

get_page_count(l) == round_up_division(Len(l.entries), l.height)

\* page.get(self.cursor).cloned()
FileList_get_selection(l) == Get(get_page_entries(l), l.cursor)

move_cursor_up(l) ==
    LET page_size == Len(get_page_entries(l))
    IN  IF page_size = 0 THEN l
        ELSE [l EXCEPT !.cursor = IF l.cursor = 0 THEN page_size - 1
                                  ELSE l.cursor - 1]

move_cursor_down(l) ==
    LET page_size == Len(get_page_entries(l))
    IN  IF page_size = 0 THEN l
        ELSE [l EXCEPT !.cursor = IF l.cursor = page_size - 1 THEN 0
                                  ELSE l.cursor + 1]

\* mutant: the cursor is left where it was when the page changes
ClampCursor_Keep(l) == l

\* if self.cursor > page_size - 1 { self.cursor = page_size - 1 }
ClampCursor(l) ==
    LET page_size == Len(get_page_entries(l))
    IN  IF l.cursor > Pred(page_size) THEN [l EXCEPT !.cursor = Pred(page_size)]
        ELSE l

move_page_forward(l) ==
    LET page_count == get_page_count(l)
    IN  IF page_count = 0 THEN l
        ELSE ClampCursor([l EXCEPT !.page_index =
                            IF l.page_index = page_count - 1 THEN 0
                            ELSE l.page_index + 1])

move_page_back(l) ==
    LET page_count == get_page_count(l)
    IN  IF page_count = 0 THEN l
        ELSE ClampCursor([l EXCEPT !.page_index =
                            IF l.page_index = 0 THEN page_count - 1
                            ELSE l.page_index - 1])

resize(l, height) ==
    [l EXCEPT !.cursor = 0, !.page_index = 0, !.height = height]

set_entries(l, new_entries) ==
    [l EXCEPT !.cursor = 0, !.page_index = 0, !.entries = new_entries]

InitFileList ==
    /\ \E es \in EntryLists : \E h \in Heights :
        file_list = [entries |-> es, cursor |-> 0, page_index |-> 0,
                     height |-> h]
    /\ last = <<>>
    /\ dir_order = <<>>
    /\ path = <<>>
    /\ sql = <<>>
    /\ batches = <<>>
    /\ exec = ExecIdle
    /\ selected = <<>>
    /\ current_screen = "FileChooser"
    /\ chan = <<>>
    /\ keyAt = 0
    /\ alive = TRUE
    /\ pos = 0
    /\ listPos = 0
    /\ tasks = {}
    /\ scans = {}
    /\ memory = [p \in Paths |-> <<>>]
    /\ keys = 0
    /\ runs = [p \in Paths |-> 0]
    /\ cycle = CycleIdle

FileListCall(op, arg, after) ==
    /\ file_list' = after
    /\ last' = <<[op |-> op, arg |-> arg, before |-> file_list]>>
    /\ UNCHANGED <<dir_order, path, sql, batches, exec, selected,
                   current_screen, chan, keyAt, alive, pos, listPos, tasks,
                   scans, memory, keys, runs, cycle>>

MoveCursorUp == FileListCall("move_cursor_up", <<>>, move_cursor_up(file_list))

MoveCursorDown ==
    FileListCall("move_cursor_down", <<>>, move_cursor_down(file_list))

MovePageForward ==
    FileListCall("move_page_forward", <<>>, move_page_forward(file_list))

MovePageBack ==
    FileListCall("move_page_back", <<>>, move_page_back(file_list))

Resize ==
    \E h \in Heights : FileListCall("resize", h, resize(file_list, h))

SetEntries ==
    \E es \in EntryLists :
        FileListCall("set_entries", es, set_entries(file_list, es))

NextFileList ==
    \/ MoveCursorUp
    \/ MoveCursorDown
    \/ MovePageForward
    \/ MovePageBack
    \/ Resize
    \/ SetEntries

SpecFileList == InitFileList /\ [][NextFileList]_vars

\* the number of pages: the least number of pages of the height that hold
\* all entries
Pages(l) ==
    CHOOSE k \in 0..Len(l.entries) :
        /\ k * l.height >= Len(l.entries)
        /\ \A j \in 0..(k - 1) : j * l.height < Len(l.entries)

\* the number of entries on page i (from 0)
OnPage(l, i) ==
    Cardinality({k \in 1..Len(l.entries) : (k - 1) \div l.height = i})

Moves ==
    {"move_cursor_up", "move_cursor_down", "move_page_forward",
     "move_page_back"}

Least(a, b) == IF a < b THEN a ELSE b

\* C30: with a height of at least one row and a list that is not empty, the
\* page index is below the number of pages and the cursor below the number of
\* entries of the page, so that get_selection returns the entry under the
\* cursor; the cursor and the page wrap around at either end and a page
\* change takes the cursor back onto a shorter page; on the empty list the
\* moves change nothing and get_selection returns None
C30_CursorOnEntry ==
    LET l == file_list
        b == last[1].before
    IN  /\ l.height >= 1
        /\ l.entries # <<>> =>
            /\ l.page_index < Pages(l)
            /\ l.cursor < OnPage(l, l.page_index)
            /\ FileList_get_selection(l) =
                   <<l.entries[l.height * l.page_index + l.cursor + 1]>>
        /\ l.entries = <<>> =>
            /\ FileList_get_selection(l) = <<>>
            /\ Called(Moves) => l = b
        /\ Called({"move_cursor_down"}) /\ l.entries # <<>> =>
            l = [b EXCEPT !.cursor = (b.cursor + 1) % OnPage(b, b.page_index)]
        /\ Called({"move_cursor_up"}) /\ l.entries # <<>> =>
            l = [b EXCEPT !.cursor = (b.cursor + OnPage(b, b.page_index) - 1)
                                         % OnPage(b, b.page_index)]
        /\ Called({"move_page_forward"}) /\ l.entries # <<>> =>
            /\ l.page_index = (b.page_index + 1) % Pages(b)
            /\ l.cursor = Least(b.cursor, OnPage(l, l.page_index) - 1)
        /\ Called({"move_page_back"}) /\ l.entries # <<>> =>
            /\ l.page_index = (b.page_index + Pages(b) - 1) % Pages(b)
            /\ l.cursor = Least(b.cursor, OnPage(l, l.page_index) - 1)

\* four entries on pages of three: from the last row of the first page,
\* move_page_back wraps to the last page and the cursor lands on its one entry
C30_Witness ==
    /\ Called({"move_page_back"})
    /\ Len(file_list.entries) = 4 /\ file_list.height = 3
    /\ last[1].before.page_index = 0 /\ last[1].before.cursor = 2
    /\ file_list.page_index = 1 /\ file_list.cursor = 0
    /\ FileList_get_selection(file_list) = <<4>>

-----------------------------------------------------------------------------
(* SpecMerge: ConnectionArgs::merge on its own.  An Option is <<>> or <<v>>; *)
(* every field is given or not on the command line and in the settings,     *)
(* with values that tell the two apart.                                     *)

DEFAULT_SERVER == "localhost"
DEFAULT_PORT == 1433

\* mutant: the settings go before the command line
or_else_Settings(arg, setting) == IF setting # <<>> THEN setting ELSE arg

\* Option::or_else(|| settings..): the argument, else the setting
or_else(arg, setting) == IF arg # <<>> THEN arg ELSE setting

\* Option::unwrap_or_else(|| default)
unwrap_or_else(opt, default) == IF opt # <<>> THEN opt[1] ELSE default

Opt(S) == {<<>>} \cup {<<v>> : v \in S}

\* the ConnectionArgs clap can build
ConnectionArgs ==
    [server : Opt({"cli.server"}), port : Opt({1}),
     username : Opt({"cli.user"}), password : Opt({"cli.pass"}),
     name : Opt({"cli.name"}), is_integrated : Opt(BOOLEAN)]

\* the settings.database a configuration file can give
DatabaseSettings ==
    [server : Opt({"cfg.server"}), port : Opt({2}),
     username : Opt({"cfg.user"}), password : Opt({"cfg.pass"}),
     name : Opt({"cfg.name"}), integrated : Opt(BOOLEAN)]

\* ConnectionArgs::merge: Ok(Database) or Err(ArgumentsError)
merge(self, database) ==
    LET server == unwrap_or_else(or_else(self.server, database.server),
                                 DEFAULT_SERVER)
        port == unwrap_or_else(or_else(self.port, database.port), DEFAULT_PORT)
        name == or_else(self.name, database.name)
        is_integrated ==
            unwrap_or_else(or_else(self.is_integrated, database.integrated),
                           FALSE)
        username == or_else(self.username, database.username)
        password == or_else(self.password, database.password)
    IN  IF name = <<>> THEN <<"Err", "MissingDBName">>
        ELSE IF is_integrated
             THEN <<"Ok", [server |-> server, port |-> port, name |-> name[1],
                           authentication |-> <<"Integrated">>]>>
        ELSE IF username = <<>> THEN <<"Err", "MissingUsername">>
        ELSE IF password = <<>> THEN <<"Err", "MissingPassword">>
        ELSE <<"Ok", [server |-> server, port |-> port, name |-> name[1],
                      authentication |->
                          <<"SqlServer", username[1], password[1]>>]>>

InitMerge ==
    /\ last = <<>>
    /\ file_list = <<>>
    /\ dir_order = <<>>
    /\ path = <<>>
    /\ sql = <<>>
    /\ batches = <<>>
    /\ exec = ExecIdle
    /\ selected = <<>>
    /\ current_screen = "FileChooser"
    /\ chan = <<>>
    /\ keyAt = 0
    /\ alive = TRUE
    /\ pos = 0
    /\ listPos = 0
    /\ tasks = {}
    /\ scans = {}
    /\ memory = [p \in Paths |-> <<>>]
    /\ keys = 0
    /\ runs = [p \in Paths |-> 0]
    /\ cycle = CycleIdle

Merge ==
    /\ last = <<>>
    /\ \E self \in ConnectionArgs : \E database \in DatabaseSettings :
        last' = <<[op |-> "merge", arg |-> self, before |-> database,
                   ret |-> merge(self, database)]>>
    /\ UNCHANGED <<file_list, dir_order, path, sql, batches, exec, selected,
                   current_screen, chan, keyAt, alive, pos, listPos, tasks,
                   scans, memory, keys, runs, cycle>>

NextMerge == Merge

SpecMerge == InitMerge /\ [][NextMerge]_vars

\* the value of a field: of the command line when given there, else of the
\* settings when given there, else none
Given(a, s) ==
    CASE a # <<>> -> a
      [] a = <<>> /\ s # <<>> -> s
      [] OTHER -> <<>>

\* C31: merge takes every field from the command line first, then from the
\* settings, then the default (localhost, 1433, not integrated); it returns
\* an error and no Database exactly when the name is given in neither, or
\* authentication is not integrated and the username or the password is
\* given in neither
C31_MergeOrder ==
    Called({"merge"}) =>
        LET a == last[1].arg
            s == last[1].before
            r == last[1].ret
            name == Given(a.name, s.name)
            user == Given(a.username, s.username)
            pass == Given(a.password, s.password)
            integ == Given(a.is_integrated, s.integrated) = <<TRUE>>
            missing == name = <<>> \/ (~integ /\ (user = <<>> \/ pass = <<>>))
        IN  /\ r[1] = "Err" <=> missing
            /\ r[1] = "Ok" =>
                /\ r[2].name = name[1]
                /\ r[2].server = IF Given(a.server, s.server) = <<>>
                                 THEN "localhost"
                                 ELSE Given(a.server, s.server)[1]
                /\ r[2].port = IF Given(a.port, s.port) = <<>> THEN 1433
                               ELSE Given(a.port, s.port)[1]
                /\ r[2].authentication =
                       IF integ THEN <<"Integrated">>
                       ELSE <<"SqlServer", user[1], pass[1]>>

\* the command line says not integrated and gives the user, the settings say
\* integrated and give another user, the name and the password: the database
\* is that of the settings with the user of the command line, default server
C31_Witness ==
    /\ Called({"merge"})
    /\ last[1].arg.is_integrated = <<FALSE>>
    /\ last[1].before.integrated = <<TRUE>>
    /\ last[1].arg.username = <<"cli.user">>
    /\ last[1].before.username = <<"cfg.user">>
    /\ last[1].arg.name = <<>> /\ last[1].arg.server = <<>>
    /\ last[1].before.server = <<>>
    /\ last[1].ret = <<"Ok", [server |-> "localhost", port |-> 1433,
                              name |-> "cfg.name",
                              authentication |->
                                  <<"SqlServer", "cli.user", "cfg.pass">>]>>

-----------------------------------------------------------------------------
(* Messages of run tasks and the current screen *)

C32_Step ==
    Dequeues =>
        LET a == Head(chan) IN
        /\ a.type = "ScriptRunning" =>
            \A e \in EntriesOf(selected', a.path) : e.state = "Running"
        /\ a.type = "ScriptFinished" =>
            \A e \in EntriesOf(selected', a.path) : e.state = "Finished"
        /\ a.type = "ScriptError" =>
            \A e \in EntriesOf(selected', a.path) : e.state = "Error"
        /\ (a.type = "ScriptRun" /\ InState({"None"}) # {}) => Spawned # {}

\* C32: whichever screen is current when the event loop receives it, a
\* ScriptRunning, ScriptFinished or ScriptError message is applied to the
\* entries of its path, and a ScriptRun with an entry left to run spawns a
\* task
C32_AppliedOnAnyScreen == [][C32_Step]_vars


\* C33: no entry is executed more than once between being added and being
\* removed: at most one task was spawned for a path since its entry was added,
\* however the Run triggers and the ScriptRunning messages are received
C33_ExecutedOnce == \A p \in Paths : runs[p] <= 1


-----------------------------------------------------------------------------
(* One run-cycle without further input: a Run key was read on the          *)
(* ScriptRunner screen with a queue whose entries are None, Finished or    *)
(* Error and no script in flight; no key follows.  The event loop receives *)
(* what the channel holds (it drains at every Tick and Render event), the  *)
(* tasks tokio spawned run to their sends, and every execution returns.    *)

RestQueues ==
    {q \in Queues : \A i \in 1..Len(q) : q[i].state # "Running"}

InitRun ==
    /\ selected \in RestQueues
    /\ current_screen = "ScriptRunner"
    /\ \E skip \in BOOLEAN :
        /\ chan = <<ScriptRunMsg(skip)>>
        /\ cycle = [open |-> TRUE, skip |-> skip, quiet |-> TRUE, failed |-> {}]
        /\ last = <<[op |-> "ScriptRun", arg |-> skip, before |-> selected]>>
    /\ keyAt = 1
    /\ alive = TRUE
    /\ pos = 0
    /\ listPos = 0
    /\ path \in {<<>>, <<DirEntry>>}
    /\ tasks = {}
    /\ scans = {}
    /\ memory = [p \in Paths |-> <<>>]
    /\ keys = MaxKeys
    /\ runs = [p \in Paths |-> 0]
    /\ sql = <<>>
    /\ batches = <<>>
    /\ exec = ExecIdle
    /\ dir_order = <<>>
    /\ file_list = <<>>

\* App::run's drain: the handlers of the messages of a run-cycle
Drain ==
    \/ ScrollScriptRun
    \/ ScrollScriptRunning
    \/ ScrollScriptFinished
    \/ ScrollScriptError
    \/ ListEntryStatusChanged

\* the spawned tasks
TaskStep ==
    \/ TaskStart
    \/ TaskWork
    \/ TaskSend

NextRun ==
    \/ ScrollScriptRun
    \/ ScrollScriptRunning
    \/ ScrollScriptFinished
    \/ ScrollScriptError
    \/ ListEntryStatusChanged
    \/ TaskStart
    \/ TaskWork
    \/ TaskSend

SpecRun ==
    /\ InitRun
    /\ [][NextRun]_vars
    /\ WF_vars(Drain)
    /\ WF_vars(TaskStep)

RECURSIVE StartedUpTo(_)
StartedUpTo(n) == IF n = 0 THEN 0 ELSE runs[n] + StartedUpTo(n - 1)

\* the scripts started since the Run key
Started == StartedUpTo(NumPaths)

\* the entries that were None when the Run key was read
NoneAtStart == {i \in 1..Len(last[1].before) : last[1].before[i].state = "None"}

\* no script in flight, no pending Run trigger
Quiescent == InFlight = 0 /\ tasks = {} /\ Pending({"ScriptRun"}) = {}

\* C34: with a finite queue, every execution returning and no further key, a
\* Run trigger leads to a state with no script in flight and no ScriptRun
\* pending; the scripts started since the trigger are at most the entries that
\* were None when the cycle began, and each ScriptRun received starts at most
\* one script
C34_RunCycleEnds ==
    /\ (Pending({"ScriptRun"}) # {}) ~> Quiescent
    /\ [](Started <= Cardinality(NoneAtStart))
    /\ [][Cardinality(tasks') <= Cardinality(tasks) + 1]_vars

\* the cycle came to rest with the process alive after it started both of two
\* None entries
C34_Witness ==
    /\ alive /\ Quiescent /\ chan = <<>>
    /\ Cardinality(NoneAtStart) = 2
    /\ Started = 2


-----------------------------------------------------------------------------
(* The history write of a result that comes after its entry left the queue *)

\* the record the handler of a completion message has to leave for the path
Recorded(p, result) == memory[p] = <<[crc |-> Checksum(p), result |-> result]>>

\* C35: when the ScriptFinished message of a script, or its ScriptError
\* message with a checksum, is applied, the history record of its path is
\* written (checksum and result), whether or not the path still has an entry
\* in the queue
C35_HistoryWrittenLate ==
    /\ Called({"ScriptFinished"}) => Recorded(last[1].arg[1], TRUE)
    /\ (Called({"ScriptError"}) /\ last[1].arg[2] = BatchErrorMsg)
        => Recorded(last[1].arg[1], FALSE)

\* a ScriptFinished message was applied for a path that had no entry in the
\* queue, and its record is in the store
C35_Witness ==
    /\ Called({"ScriptFinished"})
    /\ last[1].arg[1] \notin PathsOf(last[1].before)
    /\ last[1].before # <<>>
    /\ Recorded(last[1].arg[1], TRUE)


-----------------------------------------------------------------------------
(* The order of the queue under every call and message *)

\* the relative_path of every position, in queue order
PathSeq(s) == [i \in 1..Len(s) |-> s[i].relative_path]

StatusMessages == {"ScriptRunning", "ScriptFinished", "ScriptError"}

\* C36: after add, add_many, remove, remove_many, toggle, toggle_many,
\* AddSelection, RemoveSelection, clear or a status message applied to a
\* sorted queue, the queue is in ascending relative_path order, and a status
\* message leaves every entry at its position
C36_SortedByPath ==
    /\ \A i, j \in 1..Len(selected) :
        i < j => selected[i].relative_path < selected[j].relative_path
    /\ Called(StatusMessages) => PathSeq(selected) = PathSeq(last[1].before)

\* a status message turned the second entry of a queue Finished while the
\* first is still None: the run state does not move it to the front
C36_Witness ==
    /\ Called({"ScriptFinished"})
    /\ Len(selected) = 2
    /\ last[1].before[2].state = "Running"
    /\ selected[2].state = "Finished"
    /\ selected[1].state = "None"


-----------------------------------------------------------------------------
(* EntryStatusChanged for a path the file list does not display *)

C37_Step ==
    ( /\ alive /\ chan # <<>>
      /\ Head(chan).type = "EntryStatusChanged" )
    => alive'

\* C37: applying an EntryStatusChanged notification never ends the process:
\* when its path is not among the entries of the directory the file list
\* displays, the process is still alive after the step that receives it
C37_StatusChangeTolerated == [][C37_Step]_vars


-----------------------------------------------------------------------------
(* The batches put together again *)

Go == <<"G", "O">>

RECURSIVE JoinGo(_)
\* the batches with "GO" between each two of them
JoinGo(bs) ==
    IF bs = <<>> THEN <<>>
    ELSE IF Len(bs) = 1 THEN bs[1]
    ELSE bs[1] \o Go \o JoinGo(Tail(bs))

\* C38: parse loses no text but the GO tokens it confirmed: the batches in
\* their order with "GO" between them are the input, or, when the input ends
\* with a GO that closed the last batch, the input without that GO
C38_JoinReproduces ==
    Called({"parse"}) =>
        \/ sql = JoinGo(batches)
        \/ /\ batches # <<>>
           /\ sql = JoinGo(batches) \o Go

\* a text that ends with a GO and has another GO before it: two batches, and
\* no batch for the nothing behind the last GO
C38_Witness ==
    /\ Called({"parse"})
    /\ Len(batches) = 2
    /\ batches[1] # <<>> /\ batches[2] # <<>>
    /\ sql = JoinGo(batches) \o Go


-----------------------------------------------------------------------------
(* The cursor of ScrollList over an empty queue *)

\* the event loop receives a cursor action on the ScriptRunner screen
CursorStep ==
    /\ alive /\ OnScrollList
    /\ chan # <<>> /\ Head(chan).type \in CursorTypes
    /\ keys' = keys /\ tasks' = tasks /\ scans' = scans

C39_Step ==
    CursorStep =>
        /\ alive'
        /\ (Len(selected) > 0 /\ pos < Len(selected)) => pos' < Len(selected)
        /\ Len(selected) = 0 => pos' = 0

\* C39: cursor_up, cursor_down(n), go_to_top and go_to_bottom(n) keep the
\* selected index within 0..n-1 for a list of n > 0 entries, and for n = 0
\* they neither end the process nor wrap n - 1 around: the index stays 0
C39_CursorInRange == [][C39_Step]_vars

====
